---- MODULE Spec2Model ----
(***************************************************************************)
(* Model of the developer.webex.com scraper                                *)
(* (src/developer.webex.com/scraper/__init__.py):                          *)
(*   - the process-wide Class registry (Class.name, Class.register),       *)
(*     Class.equivalent, Class.optimize, Class.sources / all_sources;      *)
(*   - DevWebexComScraper.param_parser over bounded element trees;         *)
(*   - the DocMethodDetails to_yml / from_yml persistence pair.            *)
(***************************************************************************)
EXTENDS Integers, Sequences, FiniteSets, TLC

VARIABLES classes, registry, out, done, err, last,
          input, params, perr, trace, parsed,
          schema, file, loaded, yerr, ypc,
          submenus, runs, shown,
          doc_link, fetched, details, derr, dpc,
          sent, raised, call,
          threads, raced,
          collection, listings

\* state of the Class registry and of the source emitter:
\*   classes   the Class instances, in order of construction
\*   registry  Class.registry
\*   out       the definitions yielded by the latest all_sources() call
\*   done      the definitions yielded by the calls before it
\*   err       the exception the latest operation raised ("none": none)
\*   last      the latest operation and its arguments
regVars == <<classes, registry, out, done, err, last>>

\* state of one run of the parameter-tree parser:
\*   input   the sibling elements handed to param_parser
\*   params  the Parameters it yielded
\*   perr    the exception it raised ("none": none)
\*   trace   per boundary element it classified: its index among the boundary
\*           elements, the shape found, the index of the first Parameter
\*           yielded for it and the number of Parameters yielded for it
\*   parsed  whether param_parser has run
parserVars == <<input, params, perr, trace, parsed>>

\* state of one save and reload of a document schema:
\*   schema  the DocMethodDetails that is saved
\*   file    the file to_yml wrote: the text before the YAML document and
\*           the YAML document
\*   loaded  the DocMethodDetails from_yml returned
\*   yerr    the exception from_yml raised ("none": none)
\*   ypc     "new", then "written" after to_yml, then "loaded" after from_yml
ymlVars == <<schema, file, loaded, yerr, ypc>>

\* state of docs_from_submenu_items, run twice on the same menu and the
\* same page under two ignore policies:
\*   submenus  the labels of the submenus, in menu order
\*   runs      the two runs: policy (baseline, new_only), the index k of the
\*             next submenu, prev_container_header, the SectionDocs yielded,
\*             the submenus clicked, the waits attempted per clicked submenu,
\*             and the exception that ended the run ("none": none)
\*   shown     what the page did on a click on each submenu processed so far
menuVars == <<submenus, runs, shown>>

\* state of one get_method_details call:
\*   doc_link  the link the next fetch uses
\*   fetched   the links fetched so far
\*   details   the value returned ("none": None; "pending": not returned)
\*   derr      the exception raised ("none": none)
\*   dpc       "fetch", "parse" or "done"
detailVars == <<doc_link, fetched, details, derr, dpc>>

\* state of the REST session under RoomsApi.update and MessagesApi.update:
\*   sent      the PUT requests issued
\*   raised    the exception the latest update call raised ("none": none)
\*   call      the latest update call: the API and the entity's identifier
updateVars == <<sent, raised, call>>

\* state of the threads that construct Class instances at the same time:
\*   threads   of each thread, where it is in the constructor ("idle": not
\*             in it; "lookup": _name is set and register() is entered;
\*             "insert": the name is chosen and not yet inserted) and the
\*             instance c it constructs
\*   raced     whether two threads have been in the constructor at once
raceVars == <<threads, raced>>

\* state of the listings of a collection:
\*   collection  the items the service holds, in its order
\*   listings    the list() calls made, each with the API, its parameters,
\*               the link of the page to request next and the items yielded
listVars == <<collection, listings>>

restVars == <<menuVars, detailVars, updateVars, raceVars, listVars>>

vars == <<regVars, parserVars, ymlVars, restVars>>

\* the variables the operations of the class model leave alone
notRegVars == <<parserVars, ymlVars, restVars>>

\* the variables the parser leaves alone
notParserVars == <<regVars, ymlVars, restVars>>

\* the variables the save and the reload leave alone
notYmlVars == <<regVars, parserVars, restVars>>

(***************************************************************************)
(* Generic helpers                                                         *)
(***************************************************************************)
\* Python's None, for string-valued fields (base, type_spec, info)
None == "<None>"

\* the indices of a sequence
Idx(s) == 1..Len(s)

\* the elements of a sequence
Range(s) == {s[i] : i \in Idx(s)}

(***************************************************************************)
(* Bounds and input domains of the class model                             *)
(***************************************************************************)
\* number of Class instances constructed in one run
MaxClasses == 3

\* longest attribute list of a constructed class
MaxAttrs == 3

\* longest attribute list of the two classes of the subclass-inference runs
MaxPairAttrs == 4

\* range(1, 100): the suffixes 1..99 tried on a name collision
MaxSuffix == 99

\* names requested at construction or by a rename
ReqNames == {"X", "X1"}

\* attribute names, in the order in which a documented object lists them
AttrNames == <<"a", "b", "c", "d", "e">>

\* A Parameter as far as the class model reads it: name, type and the
\* param_class link (0: no class).  A type is the string t, or array[t].
Attr(n, arr, t, pc) == [name |-> n, arr |-> arr, t |-> t, param_class |-> pc]

\* the list of the first n attribute names as plain strings
PlainAttrs(n) == [i \in 1..n |-> Attr(AttrNames[i], FALSE, "string", 0)]

\* attribute lists a class is constructed with: the first n attribute names
\* as strings, where at most one attribute is instead an object, with or
\* without a nested class, or the last attribute of a list of full length
\* an array of objects, with or without a nested class.
\* ids: the classes that exist and can be referenced as nested class.
AttrLists(ids) ==
    {PlainAttrs(n) : n \in 1..MaxAttrs}
      \cup UNION {{[PlainAttrs(n) EXCEPT ![i] = Attr(AttrNames[i], FALSE, "object", pc)] :
                        i \in 1..n, pc \in {0} \cup ids} : n \in 1..MaxAttrs}
      \cup {[PlainAttrs(MaxAttrs) EXCEPT ![MaxAttrs] = Attr(AttrNames[MaxAttrs], TRUE, "object", pc)] :
                pc \in {0} \cup ids}

\* the sequences of n distinct elements of S
RECURSIVE Arrangements(_, _)
Arrangements(S, n) ==
    IF n = 0 THEN {<<>>}
    ELSE UNION {{Append(s, x) : x \in S \ Range(s)} : s \in Arrangements(S, n - 1)}

\* attribute lists of the subclass-inference runs: the first MaxPairAttrs
\* attribute names in any selection and order, one Parameter per name; the
\* attribute of the first name is a string or a number, the others strings
PairAttrLists ==
    LET names == {AttrNames[i] : i \in 1..MaxPairAttrs}
        lists == UNION {Arrangements(names, n) : n \in 1..MaxPairAttrs}
    IN  {[i \in Idx(l) |-> Attr(l[i], FALSE, IF l[i] = AttrNames[1] THEN t ELSE "string", 0)] :
            l \in lists, t \in {"string", "number"}}

(***************************************************************************)
(* Class registry: an insertion-ordered dict from name to instance         *)
(***************************************************************************)
\* registry.get(k): the instance registered as k, 0 for None
RegGet(reg, k) ==
    IF \E i \in Idx(reg) : reg[i].key = k
    THEN reg[CHOOSE i \in Idx(reg) : reg[i].key = k].id
    ELSE 0

\* registry.pop(k, None)
RegPop(reg, k) == SelectSeq(reg, LAMBDA e : e.key # k)

\* registry[k] = c: an existing key keeps its position, a new one is appended
RegSet(reg, k, c) ==
    IF \E i \in Idx(reg) : reg[i].key = k
    THEN [i \in Idx(reg) |-> IF reg[i].key = k THEN [key |-> k, id |-> c] ELSE reg[i]]
    ELSE Append(reg, [key |-> k, id |-> c])

\* the keys of the registry
RegKeys(reg) == {reg[i].key : i \in Idx(reg)}

RECURSIVE FirstFree(_, _, _)
\* next(name for i in range(i, 100) if registry.get(name := f'{_name}{i}')
\* is None): the first suffix from i on for which name+suffix is no key;
\* 0 when the range is exhausted
FirstFree(reg, name, i) ==
    IF i > MaxSuffix THEN 0
    ELSE IF RegGet(reg, name \o ToString(i)) = 0 THEN i
    ELSE FirstFree(reg, name, i + 1)

\* Class.register that appends the suffix 1 without looking it up
Register_FirstSuffix(cls, reg, c) ==
    LET name == cls[c]._name IN
    IF RegGet(reg, name) # 0
    THEN LET new_name == name \o ToString(1) IN
         [classes  |-> [cls EXCEPT ![c]._name = new_name],
          registry |-> RegSet(reg, new_name, c),
          err      |-> "none"]
    ELSE [classes |-> cls, registry |-> RegSet(reg, name, c), err |-> "none"]

\* Class.register for instance c, whose _name is already set.
\* Result: the classes, the registry and the error raised.
Register(cls, reg, c) ==
    LET name == cls[c]._name IN
    IF RegGet(reg, name) # 0
    THEN LET i == FirstFree(reg, name, 1) IN
         IF i = 0
         THEN \* next() on an exhausted generator
              [classes |-> cls, registry |-> reg, err |-> "StopIteration"]
         ELSE LET new_name == name \o ToString(i) IN
              [classes  |-> [cls EXCEPT ![c]._name = new_name],
               registry |-> RegSet(reg, new_name, c),
               err      |-> "none"]
    ELSE [classes |-> cls, registry |-> RegSet(reg, name, c), err |-> "none"]

\* a setter that leaves the old name in the registry
SetName_KeepsOld(cls, reg, c, new_name) ==
    Register([cls EXCEPT ![c]._name = new_name], reg, c)

\* the setter of Class.name, for instance c
SetName(cls, reg, c, new_name) ==
    LET reg1 == IF cls[c]._name # None THEN RegPop(reg, cls[c]._name) ELSE reg
        cls1 == [cls EXCEPT ![c]._name = new_name]
    IN  Register(cls1, reg1, c)

\* a Class instance as the dataclass creates it, before its name is set
NewClass(attributes) ==
    [_name |-> None, attributes |-> attributes, is_enum |-> FALSE,
     base |-> None, source_generated |-> FALSE]

(***************************************************************************)
(* Class.equivalent                                                        *)
(***************************************************************************)
\* {a.name: a for a in attributes}.get(name): the last attribute of that
\* name, as an index into the list; 0 for None
AttrGet(attributes, name) ==
    IF \E i \in Idx(attributes) : attributes[i].name = name
    THEN CHOOSE i \in Idx(attributes) :
            /\ attributes[i].name = name
            /\ \A j \in Idx(attributes) : attributes[j].name = name => j <= i
    ELSE 0

RECURSIVE equivalent(_, _, _)
\* equivalent() that does not compare the types of the attributes
equivalent_NoType(cls, s, o) ==
    LET self == cls[s]
        other == cls[o]
        Matches(i) ==
            LET a1 == self.attributes[i]
                k == AttrGet(other.attributes, a1.name)
            IN  /\ k # 0
                /\ (a1.param_class # 0) = (other.attributes[k].param_class # 0)
                /\ (a1.param_class # 0 =>
                        equivalent(cls, a1.param_class, other.attributes[k].param_class))
    IN  IF other.base = self._name THEN TRUE
        ELSE IF self.base = other._name THEN TRUE
        ELSE IF Len(self.attributes) # Len(other.attributes) THEN FALSE
        ELSE IF \E i \in Idx(self.attributes) : ~Matches(i) THEN FALSE
        ELSE self.base = other.base

\* cls[s].equivalent(cls[o])
equivalent(cls, s, o) ==
    LET self == cls[s]
        other == cls[o]
        \* the attribute of self at i has an equivalent counterpart in other
        Matches(i) ==
            LET a1 == self.attributes[i]
                k == AttrGet(other.attributes, a1.name)
            IN  /\ k # 0
                /\ a1.arr = other.attributes[k].arr
                /\ a1.t = other.attributes[k].t
                /\ (a1.param_class # 0) = (other.attributes[k].param_class # 0)
                /\ (a1.param_class # 0 =>
                        equivalent(cls, a1.param_class, other.attributes[k].param_class))
    IN  IF other.base = self._name THEN TRUE
        ELSE IF self.base = other._name THEN TRUE
        ELSE IF Len(self.attributes) # Len(other.attributes) THEN FALSE
        ELSE IF \E i \in Idx(self.attributes) : ~Matches(i) THEN FALSE
        ELSE self.base = other.base

(***************************************************************************)
(* Class.optimize                                                          *)
(***************************************************************************)
\* a.common_attributes(b): the attributes of a with a same-named attribute
\* of the same type in b
common_attributes(a, b) ==
    SelectSeq(a.attributes,
              LAMBDA attr :
                  LET k == AttrGet(b.attributes, attr.name) IN
                  /\ k # 0
                  /\ attr.arr = b.attributes[k].arr
                  /\ attr.t = b.attributes[k].t)

\* the inner loop body that sets the base and keeps the common attributes
OptimizePair_KeepsCommon(cls, a, b) ==
    IF cls[b]._name = cls[a]._name THEN cls
    ELSE IF cls[b].base # None THEN cls
    ELSE LET common == common_attributes(cls[a], cls[b]) IN
         IF Len(common) = Len(cls[a].attributes) /\ Len(common) > 1
         THEN [cls EXCEPT ![b].base = cls[a]._name]
         ELSE cls

\* the body of the inner loop of optimize for the pair (class_a, class_b)
OptimizePair(cls, a, b) ==
    IF cls[b]._name = cls[a]._name THEN cls
    ELSE IF cls[b].base # None THEN cls
    ELSE LET common == common_attributes(cls[a], cls[b])
             names == {common[i].name : i \in Idx(common)}
         IN  IF Len(common) = Len(cls[a].attributes) /\ Len(common) > 1
             THEN [cls EXCEPT ![b].base = cls[a]._name,
                              ![b].attributes = SelectSeq(@, LAMBDA x : x.name \notin names)]
             ELSE cls

RECURSIVE OptimizeInner(_, _, _, _)
RECURSIVE OptimizeInner_FirstOnly(_, _, _, _)
\* an inner loop that stops at the first class it gives a base
OptimizeInner_FirstOnly(cls, reg, a, j) ==
    IF j > Len(reg) THEN cls
    ELSE LET next == OptimizePair(cls, a, reg[j].id) IN
         IF next # cls THEN next
         ELSE OptimizeInner_FirstOnly(cls, reg, a, j + 1)

\* the inner loop, from the j-th value of the registry on
OptimizeInner(cls, reg, a, j) ==
    IF j > Len(reg) THEN cls
    ELSE OptimizeInner(OptimizePair(cls, a, reg[j].id), reg, a, j + 1)

RECURSIVE OptimizeOuter(_, _, _)
\* the outer loop, from the i-th value of the registry on
OptimizeOuter(cls, reg, i) ==
    IF i > Len(reg) THEN cls
    ELSE LET a == reg[i].id IN
         IF cls[a].attributes = <<>> THEN OptimizeOuter(cls, reg, i + 1)
         ELSE IF cls[a].base # None THEN OptimizeOuter(cls, reg, i + 1)
         ELSE OptimizeOuter(OptimizeInner(cls, reg, a, 1), reg, i + 1)

\* Class.optimize(): the classes after the pass
optimize(cls, reg) == OptimizeOuter(cls, reg, 1)

(***************************************************************************)
(* Class.sources and Class.all_sources                                     *)
(***************************************************************************)
RECURSIVE python_type(_, _, _)
\* python_type(type_str) of Class.sources
python_type(cls, reg, type_str) ==
    IF type_str = "number" THEN "int"
    ELSE IF type_str = "boolean" THEN "bool"
    ELSE IF type_str = "string" THEN "str"
    ELSE LET r == RegGet(reg, type_str) IN
         IF r # 0 /\ cls[r].base # None /\ cls[r].attributes = <<>>
         THEN python_type(cls, reg, cls[r].base)
         ELSE type_str

\* type_for_source(a) of Class.sources
type_for_source(cls, reg, a) ==
    IF a.param_class # 0
    THEN IF a.arr
         THEN "list[" \o python_type(cls, reg, cls[a.param_class]._name) \o "]"
         ELSE python_type(cls, reg, cls[a.param_class]._name)
    ELSE IF a.arr
         THEN "list[" \o python_type(cls, reg, a.t) \o "]"
         ELSE python_type(cls, reg, a.t)

\* the definition sources() prints for class c: the class statement and
\* one field per attribute
Definition(cls, reg, c) ==
    [cls    |-> c,
     name   |-> cls[c]._name,
     bases  |-> IF cls[c].base # None THEN cls[c].base
                ELSE IF cls[c].is_enum THEN "str, Enum"
                ELSE "ApiModel",
     fields |-> [i \in Idx(cls[c].attributes) |->
                    [name |-> cls[c].attributes[i].name,
                     type |-> type_for_source(cls, reg, cls[c].attributes[i])]]]

RECURSIVE sources(_, _, _, _)
RECURSIVE SourcesOfChildren(_, _, _, _, _)

\* the loop of sources() over the classes of the attributes of c, from
\* attribute i on
SourcesOfChildren(st, reg, c, i, depth) ==
    IF st.err # "none" \/ i > Len(st.classes[c].attributes) THEN st
    ELSE LET child == st.classes[c].attributes[i].param_class IN
         SourcesOfChildren(IF child # 0 THEN sources(st, reg, child, depth + 1) ELSE st,
                           reg, c, i + 1, depth)

\* sources() that yields the definition of c before it turns to the base
sources_SelfFirst(st, reg, c, depth) ==
    IF st.err # "none" THEN st
    ELSE IF depth > Len(st.classes) THEN [st EXCEPT !.err = "RecursionError"]
    ELSE IF st.classes[c].source_generated THEN st
    ELSE IF st.classes[c].attributes = <<>> THEN st
    ELSE LET st1 == SourcesOfChildren(st, reg, c, 1, depth)
             base == st.classes[c].base
             st2 == IF st1.err # "none" THEN st1
                    ELSE [st1 EXCEPT !.out = Append(@, Definition(st1.classes, reg, c)),
                                     !.classes[c].source_generated = TRUE]
         IN  IF st2.err # "none" \/ base = None THEN st2
             ELSE IF RegGet(reg, base) = 0 THEN [st2 EXCEPT !.err = "KeyError"]
             ELSE sources(st2, reg, RegGet(reg, base), depth + 1)

\* sources() without the source_generated guard
sources_NoGuard(st, reg, c, depth) ==
    IF st.err # "none" THEN st
    ELSE IF depth > Len(st.classes) THEN [st EXCEPT !.err = "RecursionError"]
    ELSE IF st.classes[c].attributes = <<>> THEN st
    ELSE LET st1 == SourcesOfChildren(st, reg, c, 1, depth)
             base == st.classes[c].base
             st2 == IF st1.err # "none" \/ base = None THEN st1
                    ELSE IF RegGet(reg, base) = 0 THEN [st1 EXCEPT !.err = "KeyError"]
                    ELSE sources(st1, reg, RegGet(reg, base), depth + 1)
         IN  IF st2.err # "none" THEN st2
             ELSE [st2 EXCEPT !.out = Append(@, Definition(st2.classes, reg, c)),
                              !.classes[c].source_generated = TRUE]

\* cls[c].sources(), consumed to its end.  st: the classes, the definitions
\* yielded so far and the exception raised.  depth: the calls of sources()
\* on the stack; a chain of more calls than there are classes re-enters a
\* class that is still being generated, which recurses until Python raises
\* RecursionError.
sources(st, reg, c, depth) ==
    IF st.err # "none" THEN st
    ELSE IF depth > Len(st.classes) THEN [st EXCEPT !.err = "RecursionError"]
    ELSE IF st.classes[c].source_generated THEN st
    ELSE IF st.classes[c].attributes = <<>> THEN st
    ELSE LET st1 == SourcesOfChildren(st, reg, c, 1, depth)
             base == st.classes[c].base
             st2 == IF st1.err # "none" \/ base = None THEN st1
                    ELSE IF RegGet(reg, base) = 0 THEN [st1 EXCEPT !.err = "KeyError"]
                    ELSE sources(st1, reg, RegGet(reg, base), depth + 1)
         IN  IF st2.err # "none" THEN st2
             ELSE [st2 EXCEPT !.out = Append(@, Definition(st2.classes, reg, c)),
                              !.classes[c].source_generated = TRUE]

RECURSIVE AllSourcesFrom(_, _, _)
\* chain.from_iterable(map(sources, registry.values())), from value i on
AllSourcesFrom(st, reg, i) ==
    IF st.err # "none" \/ i > Len(reg) THEN st
    ELSE AllSourcesFrom(sources(st, reg, reg[i].id, 1), reg, i + 1)

\* list(Class.all_sources())
all_sources(cls, reg) ==
    AllSourcesFrom([classes |-> cls, out |-> <<>>, err |-> "none"], reg, 1)

(***************************************************************************)
(* Operations on the registry                                              *)
(***************************************************************************)
\* Class(name=n, attributes=attributes): the generated __init__ assigns
\* name, which runs the setter.  When the setter raises, the constructor
\* raises and no instance exists.
Construct(n, attributes) ==
    /\ Len(classes) < MaxClasses
    /\ LET c == Len(classes) + 1
           r == SetName(Append(classes, NewClass(attributes)), registry, c, n)
       IN  /\ IF r.err = "none"
              THEN /\ classes' = r.classes
                   /\ registry' = r.registry
              ELSE UNCHANGED <<classes, registry>>
           /\ err' = r.err
           /\ last' = [op |-> "Construct", c |-> c, name |-> n]
    /\ UNCHANGED <<out, done, notRegVars>>

\* cls.name = n for an existing instance c
Rename(c, n) ==
    /\ c \in Idx(classes)
    /\ LET r == SetName(classes, registry, c, n) IN
       /\ classes' = r.classes
       /\ registry' = r.registry
       /\ err' = r.err
    /\ last' = [op |-> "Rename", c |-> c, name |-> n]
    /\ UNCHANGED <<out, done, notRegVars>>

\* Class.optimize()
Optimize ==
    /\ classes' = optimize(classes, registry)
    /\ err' = "none"
    /\ last' = [op |-> "Optimize", c |-> 0, name |-> None]
    /\ UNCHANGED <<registry, out, done, notRegVars>>

\* list(Class.all_sources())
AllSources ==
    /\ LET r == all_sources(classes, registry) IN
       /\ classes' = r.classes
       /\ out' = r.out
       /\ err' = r.err
    /\ done' = done \o out
    /\ last' = [op |-> "AllSources", c |-> 0, name |-> None]
    /\ UNCHANGED <<registry, notRegVars>>

\* no parser run
IdleParser ==
    /\ input = <<>>
    /\ params = <<>>
    /\ perr = "none"
    /\ trace = <<>>
    /\ parsed = FALSE

\* no menu scraped
IdleMenu ==
    /\ submenus = <<>>
    /\ runs = <<>>
    /\ shown = <<>>

\* no method page fetched
IdleDetails ==
    /\ doc_link = <<>>
    /\ fetched = <<>>
    /\ details = [returned |-> FALSE, value |-> <<>>]
    /\ derr = "none"
    /\ dpc = "idle"

\* no update called
IdleUpdate ==
    /\ sent = <<>>
    /\ raised = "none"
    /\ call = [api |-> "none", id |-> <<None>>, text |-> <<None>>]

\* the threads that may construct Class instances
NThreads == 2
Threads == 1..NThreads

\* no thread in the constructor
IdleRace ==
    /\ threads = [t \in Threads |-> [pc |-> "idle", c |-> 0]]
    /\ raced = FALSE

\* nothing listed
IdleList ==
    /\ collection = <<>>
    /\ listings = <<>>

IdleRest == IdleMenu /\ IdleDetails /\ IdleUpdate /\ IdleRace /\ IdleList

\* no schema saved
IdleYml ==
    /\ schema = <<>>
    /\ file = <<>>
    /\ loaded = <<>>
    /\ yerr = "none"
    /\ ypc = "idle"

\* the empty registry
EmptyRegistry ==
    /\ classes = <<>>
    /\ registry = <<>>
    /\ out = <<>>
    /\ done = <<>>
    /\ err = "none"
    /\ last = [op |-> "Init", c |-> 0, name |-> None]

InitRegistry == EmptyRegistry /\ IdleParser /\ IdleYml /\ IdleRest

\* the registry under construction and renaming
NextRegistry ==
    \/ \E n \in ReqNames : Construct(n, <<>>)
    \/ \E c \in 1..MaxClasses, n \in ReqNames : Rename(c, n)

SpecRegistry == InitRegistry /\ [][NextRegistry]_vars

\* the class model: construction, subclass inference and emission
NextClasses ==
    \/ \E a \in AttrLists(Idx(classes)) : Construct("X", a)
    \/ Optimize
    \/ AllSources

SpecClasses == InitRegistry /\ [][NextClasses]_vars

\* two classes, registered as A and B in this order, before optimize runs
InitOptimize ==
    \E a1 \in PairAttrLists, a2 \in PairAttrLists :
        LET r1 == SetName(<<NewClass(a1)>>, <<>>, 1, "A")
            r2 == SetName(Append(r1.classes, NewClass(a2)), r1.registry, 2, "B")
        IN  /\ classes = r2.classes
            /\ registry = r2.registry
            /\ out = <<>>
            /\ done = <<>>
            /\ err = "none"
            /\ last = [op |-> "Init", c |-> 0, name |-> None]
            /\ IdleParser
            /\ IdleYml
            /\ IdleRest

SpecOptimize == InitOptimize /\ [][Optimize]_vars

(***************************************************************************)
(* Properties of the class registry                                        *)
(***************************************************************************)
\* no two instances carry the same name
UniqueNames(cls) ==
    \A c \in Idx(cls), d \in Idx(cls) : c # d => cls[c]._name # cls[d]._name

\* C1: a construction that requests a name N that is no key of the registry
\* registers the new class as N; one that requests a taken name registers it
\* as N followed by the smallest i in 1..99 for which that name is no key.
\* No two classes ever share a name.
C1_RegisteredName ==
    [][/\ (last'.op = "Construct" /\ err' = "none") =>
            LET c == last'.c
                n == last'.name
                got == classes'[c]._name
            IN  /\ RegGet(registry', got) = c
                /\ IF n \notin RegKeys(registry)
                   THEN got = n
                   ELSE \E i \in 1..99 :
                           /\ got = n \o ToString(i)
                           /\ got \notin RegKeys(registry)
                           /\ \A j \in 1..(i - 1) : (n \o ToString(j)) \in RegKeys(registry)
       /\ UniqueNames(classes')]_vars

\* C1 witness: the third registration of X found X and X1 taken and got X2
C1_Witness ==
    /\ Len(classes) = 3
    /\ last = [op |-> "Construct", c |-> 3, name |-> "X"]
    /\ classes[1]._name = "X"
    /\ classes[2]._name = "X1"
    /\ classes[3]._name = "X2"

\* every attribute of a has a same-named, same-typed attribute in b
Covers(a, b) ==
    \A i \in Idx(a.attributes) : \E k \in Idx(b.attributes) :
        /\ b.attributes[k].name = a.attributes[i].name
        /\ b.attributes[k].arr = a.attributes[i].arr
        /\ b.attributes[k].t = a.attributes[i].t

\* b has an attribute whose name a does not have
HasFurther(a, b) ==
    \E k \in Idx(b.attributes) : \A i \in Idx(a.attributes) :
        a.attributes[i].name # b.attributes[k].name

\* the attributes of b whose name a does not have, in the order of b
WithoutCommon(a, b) ==
    SelectSeq(b.attributes,
              LAMBDA x : \A i \in Idx(a.attributes) : a.attributes[i].name # x.name)

ReferencedBy(cls, reg, c) ==
    ({cls[c].attributes[i].param_class : i \in Idx(cls[c].attributes)} \ {0})
      \cup (IF cls[c].base # None THEN {RegGet(reg, cls[c].base)} ELSE {})

\* the definition of class d is among the first n definitions of seq
EmittedBefore(seq, n, d) == \E j \in 1..n : seq[j].cls = d

\* C3 as stated: the definition of every class referenced by an attribute
\* of C, and that of the base of C, comes before the definition of C (in the
\* sequence of the call that defines C, or in that of an earlier call).
C3_AsStated ==
    last.op = "AllSources" =>
        \A i \in Idx(out) : \A d \in ReferencedBy(classes, registry, out[i].cls) :
            EmittedBefore(out, i - 1, d) \/ EmittedBefore(done, Len(done), d)

\* C3: when all_sources() yields the definition of C, every class that C
\* references through an attribute or as its base and that has attributes of
\* its own has been defined before: earlier in the same sequence, or by an
\* earlier call of all_sources().
C3_DependenciesFirst ==
    last.op = "AllSources" =>
        \A i \in Idx(out) : \A d \in ReferencedBy(classes, registry, out[i].cls) :
            classes[d].attributes # <<>> =>
                EmittedBefore(out, i - 1, d) \/ EmittedBefore(done, Len(done), d)

\* C3 witness: a call emitted a class after the class of one of its
\* attributes and after its base class
C3_Witness ==
    /\ last.op = "AllSources"
    /\ err = "none"
    /\ \E i \in Idx(out) :
        LET c == out[i].cls IN
        /\ classes[c].base # None
        /\ EmittedBefore(out, i - 1, RegGet(registry, classes[c].base))
        /\ \E k \in Idx(classes[c].attributes) :
              /\ classes[c].attributes[k].param_class # 0
              /\ EmittedBefore(out, i - 1, classes[c].attributes[k].param_class)

\* C4: over all calls of all_sources() no class is defined twice, and no
\* definition is emitted for a class without attributes.
C4_EmittedOnce ==
    LET all == done \o out IN
    /\ \A i \in Idx(all), j \in Idx(all) : i # j => all[i].cls # all[j].cls
    /\ \A i \in Idx(all) : all[i].fields # <<>>

\* C4 witness: after a second call, a class referenced by the attributes of
\* two emitted classes, a class that is both the base and an attribute class
\* of an emitted class, and a class without attributes that was passed over
C4_Witness ==
    LET all == done \o out
        emitted == {all[i].cls : i \in Idx(all)}
        AttrClasses(c) == {classes[c].attributes[i].param_class : i \in Idx(classes[c].attributes)}
    IN  /\ last.op = "AllSources"
        /\ done # <<>>
        /\ \E d \in emitted :
            \/ \E c1 \in emitted, c2 \in emitted :
                  c1 # c2 /\ d \in AttrClasses(c1) /\ d \in AttrClasses(c2)
            \/ \E c \in emitted :
                  d \in AttrClasses(c) /\ classes[c].base = classes[d]._name
        /\ \E c \in Idx(classes) : c \notin emitted

(***************************************************************************)
(* Properties of Class.equivalent                                          *)
(***************************************************************************)
\* every attribute of a has a same-named attribute of b with the same type,
\* the same presence of a nested class and, where present, an equivalent
\* nested class
SameAttributes(cls, a, b) ==
    \A i \in Idx(cls[a].attributes) : \E k \in Idx(cls[b].attributes) :
        LET a1 == cls[a].attributes[i]
            a2 == cls[b].attributes[k]
        IN  /\ a1.name = a2.name
            /\ a1.arr = a2.arr
            /\ a1.t = a2.t
            /\ (a1.param_class = 0) = (a2.param_class = 0)
            /\ a1.param_class # 0 => equivalent(cls, a1.param_class, a2.param_class)

\* one of the two derives from the other
Unified(cls, a, b) ==
    cls[a].base = cls[b]._name \/ cls[b].base = cls[a]._name

\* the (name, type) pairs of the attributes of a class
NameTypes(c) == {<<c.attributes[i].name, c.attributes[i].arr, c.attributes[i].t>> : i \in Idx(c.attributes)}

\* a class without nested classes
Flat(c) == \A i \in Idx(c.attributes) : c.attributes[i].param_class = 0

NoneText == <<None>>

NL == "\n"

\* str.isspace() of a character
IsSpace(a) == a \in {" ", NL}

Digits == <<"0", "1", "2", "3", "4", "5", "6", "7", "8", "9">>

\* [0-9]
IsDigit(a) == \E i \in 1..Len(Digits) : Digits[i] = a

DigitVal(a) == CHOOSE i \in 1..Len(Digits) : Digits[i] = a

\* the characters that are no word characters
Punctuation == {" ", NL, "#", "-", "/", ", ", ": "}

\* \w
IsWord(a) == a \notin Punctuation

RECURSIVE SkipSpace(_, _)
\* the first index from i on that holds no whitespace
SkipSpace(s, i) ==
    IF i <= Len(s) /\ IsSpace(s[i]) THEN SkipSpace(s, i + 1) ELSE i

RECURSIVE SkipToken(_, _)
\* the first index from i on that holds whitespace
SkipToken(s, i) ==
    IF i <= Len(s) /\ ~IsSpace(s[i]) THEN SkipToken(s, i + 1) ELSE i

RECURSIVE SplitFrom(_, _)
SplitFrom(s, i) ==
    LET b == SkipSpace(s, i)
        e == SkipToken(s, b)
    IN  IF b > Len(s) THEN <<>>
        ELSE <<SubSeq(s, b, e - 1)>> \o SplitFrom(s, e)

\* str.split()
split(s) == SplitFrom(s, 1)

RECURSIVE LastNonSpace(_, _)
LastNonSpace(s, i) ==
    IF i >= 1 /\ IsSpace(s[i]) THEN LastNonSpace(s, i - 1) ELSE i

\* str.strip()
strip(s) == SubSeq(s, SkipSpace(s, 1), LastNonSpace(s, Len(s)))

RECURSIVE join(_, _)
\* sep.join(texts)
join(sep, texts) ==
    IF texts = <<>> THEN <<>>
    ELSE IF Len(texts) = 1 THEN texts[1]
    ELSE texts[1] \o sep \o join(sep, Tail(texts))

\* re.match(r'^[^0-9#][\w\s/]*$', name)
NameMatch(name) ==
    /\ name # <<>>
    /\ ~IsDigit(name[1])
    /\ name[1] # "#"
    /\ \A i \in 2..Len(name) : IsWord(name[i]) \/ IsSpace(name[i]) \/ name[i] = "/"

\* name in '0123456789': name is a substring of the ten digits
InDigits(name) ==
    /\ \A i \in 1..Len(name) : IsDigit(name[i])
    /\ \A i \in 1..(Len(name) - 1) : DigitVal(name[i + 1]) = DigitVal(name[i]) + 1

(***************************************************************************)
(* Elements of the parsed page: a tag, its class attribute (the empty set: *)
(* no class attribute), its child elements in document order and, for an   *)
(* element without child elements, its text.                               *)
(***************************************************************************)
Tag(tag, cls, kids, text) == [tag |-> tag, cls |-> cls, kids |-> kids, text |-> text]

\* what bs4 returns when it finds nothing
NoTag == Tag("none", {}, <<>>, <<>>)

Div(cls, kids) == Tag("div", cls, kids, <<>>)
TextDiv(cls, text) == Tag("div", cls, <<>>, text)
Span(text) == Tag("span", {}, <<>>, text)
Para(text) == Tag("p", {}, <<>>, text)
Button == Tag("button", {}, <<>>, <<>>)

\* tag.find_all(name, recursive=False)
find_all(tag, name) == SelectSeq(tag.kids, LAMBDA k : k.tag = name)

RECURSIVE TextOfAll(_)
RECURSIVE TextOf(_)
\* tag.text: the text of the element and of everything below it
TextOf(tag) == tag.text \o TextOfAll(tag.kids)
TextOfAll(tags) ==
    IF tags = <<>> THEN <<>> ELSE TextOf(tags[1]) \o TextOfAll(Tail(tags))

RECURSIVE FirstDivIn(_, _)
\* the first div in document order among tags[i..] and what is below them
FirstDivIn(tags, i) ==
    IF i > Len(tags) THEN NoTag
    ELSE IF tags[i].tag = "div" THEN tags[i]
    ELSE LET below == FirstDivIn(tags[i].kids, 1)
         IN  IF below # NoTag THEN below ELSE FirstDivIn(tags, i + 1)

\* tag.div
FirstDiv(tag) == FirstDivIn(tag.kids, 1)

ObjClasses == {"params-type-non-object", "params-type-object"}

\* a sibling taken for a marker block whatever its classes
obj_class_Any(tag) == tag.cls

\* ApiSpec.obj_class
obj_class(tag) == tag.cls \cap ObjClasses

\* tag.attrs.get('class', None) is None
Classless(tag) == tag.cls = {}

RECURSIVE Flatten(_)
\* the child divs of each of the tags, in order
Flatten(tags) ==
    IF tags = <<>> THEN <<>>
    ELSE find_all(tags[1], "div") \o Flatten(Tail(tags))

RECURSIVE Descend(_)
\* the while loop of div_generator for one tag of div_list: the divs it
\* yields, and the exception it raises after them
Descend(div) ==
    LET childs == find_all(div, "div") IN
    IF div = NoTag THEN [elems |-> <<>>, err |-> "AttributeError"]
    ELSE IF Classless(div) THEN [elems |-> <<div>>, err |-> "none"]
    ELSE IF obj_class(div) # {} THEN [elems |-> <<div>>, err |-> "none"]
    ELSE IF Len(childs) = 1 THEN Descend(FirstDiv(div))
    ELSE IF find_all(div, "button") # <<>> THEN Descend(FirstDiv(div))
    ELSE IF childs # <<>> /\ \A i \in Idx(childs) : Classless(childs[i])
         THEN [elems |-> Flatten(childs), err |-> "none"]
    ELSE [elems |-> <<div>>, err |-> "none"]

RECURSIVE DivGenFrom(_, _)
DivGenFrom(div_list, i) ==
    IF i > Len(div_list) THEN [elems |-> <<>>, err |-> "none"]
    ELSE LET d == Descend(div_list[i])
             rest == DivGenFrom(div_list, i + 1)
         IN  IF d.err # "none" THEN d
             ELSE [elems |-> d.elems \o rest.elems, err |-> rest.err]

\* div_generator(div_list): the boundary elements in the order they are
\* yielded; err is what the generator raises when asked for one more
div_generator(div_list) == DivGenFrom(div_list, 1)

(***************************************************************************)
(* param_parser                                                            *)
(***************************************************************************)
\* Parameter(...), after the validator that turns None into an empty list.
\* None for param_attrs and param_object is the empty list throughout: the
\* parser only ever holds None or a non-empty list ("list(...) or None").
Parameter(name, type, type_spec, doc, param_attrs, param_object) ==
    [name |-> name, type |-> type, type_spec |-> type_spec, doc |-> doc,
     param_attrs |-> param_attrs, param_object |-> param_object]

\* a leaf whose name is its second span
TwoSpanLeaf_SecondName(param_div) ==
    LET spans == find_all(param_div, "span") IN
    IF Len(spans) = 2
    THEN <<Parameter(TextOf(spans[2]), <<>>, NoneText,
                     TextOf(spans[1]) \o TextOf(spans[2]), <<>>, <<>>)>>
    ELSE <<>>

\* a div without child divs: the Parameters yielded for it
TwoSpanLeaf(param_div) ==
    LET spans == find_all(param_div, "span") IN
    IF Len(spans) = 2
    THEN <<Parameter(TextOf(spans[1]), <<>>, NoneText,
                     TextOf(spans[1]) \o TextOf(spans[2]), <<>>, <<>>)>>
    ELSE <<>>

\* the name check before the yield: whether the parameter is skipped, and
\* the name it is yielded under
sanitize(name) ==
    IF NameMatch(name) THEN [drop |-> FALSE, name |-> name]
    ELSE IF name = <<"#">> THEN [drop |-> FALSE, name |-> <<"hash">>]
    ELSE IF InDigits(name) THEN [drop |-> FALSE, name |-> <<"digit_">> \o name]
    ELSE IF Len(split(name)) > 1 THEN [drop |-> TRUE, name |-> name]
    ELSE [drop |-> FALSE, name |-> name]

\* the type as parsed
TypeTag_Keep(param_type, param_attrs, param_object) == param_type

\* the type an element is yielded with
TypeTag(param_type, param_attrs, param_object) ==
    IF param_type = <<"enum">> /\ param_attrs = <<>> /\ param_object = <<>>
    THEN <<"string">>
    ELSE param_type

\* what the parser holds of a parameter before the lookahead
Parsed(kind, name, param_type, type_spec, doc, param_attrs) ==
    [kind |-> kind, err |-> "none", name |-> name, param_type |-> param_type,
     type_spec |-> type_spec, doc |-> doc, param_attrs |-> param_attrs]

Raised(kind, e) ==
    [kind |-> kind, err |-> e, name |-> <<>>, param_type |-> <<>>,
     type_spec |-> NoneText, doc |-> <<>>, param_attrs |-> <<>>]

\* [p.text for p in tags]
Texts(tags) == [i \in Idx(tags) |-> TextOf(tags[i])]

\* the flat form: name div, type div, doc div and an optional fourth div
FlatForm(child_divs) ==
    LET name == TextOf(child_divs[1])
        spans == find_all(child_divs[2], "span")
        param_type == TextOf(spans[1])
        type_spec == IF Len(spans) >= 2 THEN TextOf(spans[2]) ELSE NoneText
        doc == join(<<NL>>, Texts(find_all(child_divs[3], "p")))
        more == find_all(child_divs[4], "span")
        doc_line == TextOf(more[1])
                    \o join(<<", ">>, SelectSeq(Texts(Tail(more)), LAMBDA t : t # <<>>))
    IN  IF spans = <<>> THEN Raised("flat", "RuntimeError")
        ELSE IF Len(child_divs) = 3
             THEN Parsed("flat", name, param_type, type_spec, doc, <<>>)
        ELSE IF more = <<>> THEN Raised("flat", "RuntimeError")
        ELSE Parsed("flat", name, param_type, type_spec,
                    join(<<NL>>, <<doc, doc_line>>), <<>>)

RECURSIVE param_parser(_, _)

\* the standard form: a div holding the name div and the type div, and the
\* doc div
StdForm(child_divs, level) ==
    LET p_spec_div == child_divs[2]
        pair == find_all(child_divs[1], "div")
        name_div == pair[1]
        type_div == pair[2]
        spans == find_all(type_div, "span")
        param_type == TextOf(spans[1])
        type_spec == IF Len(spans) = 2 THEN TextOf(spans[2]) ELSE NoneText
        full == TextOf(name_div)
        name == IF param_type = <<"boolean">> /\ Len(split(full)) > 1
                THEN split(full)[1] ELSE full
        doc == join(<<NL>>, Texts(find_all(p_spec_div, "p")))
        below == find_all(p_spec_div, "div")
        r == param_parser(below, level + 1)
        param_attrs == r.out
    IN  IF Len(pair) # 2 THEN Raised("std", "AssertionError")
        ELSE IF Len(spans) = 0 \/ Len(spans) > 2 THEN Raised("std", "AssertionError")
        ELSE IF below = <<>>
             THEN Parsed("std", name, param_type, type_spec, doc, <<>>)
        ELSE IF r.err # "none" THEN Raised("std", r.err)
        ELSE IF /\ Len(param_attrs) = 1
                /\ param_attrs[1].param_attrs = <<>>
                /\ param_attrs[1].param_object = <<>>
             THEN Parsed("std", name, param_type, type_spec,
                         join(<<NL>>, <<strip(doc), strip(param_attrs[1].doc)>>), <<>>)
        ELSE Parsed("std", name, param_type, type_spec, doc, param_attrs)

\* the forms of a div with child divs
Form(param_div, level) ==
    LET child_divs == find_all(param_div, "div") IN
    IF Len(child_divs) = 2 THEN StdForm(child_divs, level)
    ELSE IF Len(child_divs) < 3 THEN Raised("skip", "none")
    ELSE FlatForm(child_divs)

\* one more entry of the trace
Traced(acc, i, kind, yielded) ==
    [out |-> acc.out \o yielded,
     trace |-> Append(acc.trace, [i |-> i, kind |-> kind,
                                  first |-> Len(acc.out) + 1, n |-> Len(yielded)]),
     err |-> acc.err]

\* the sanitation, the type and the yield of a parameter
Yield(f, param_attrs, param_object) ==
    LET named == sanitize(f.name) IN
    IF named.drop THEN <<>>
    ELSE <<Parameter(named.name, TypeTag(f.param_type, param_attrs, param_object),
                     f.type_spec, f.doc, param_attrs, param_object)>>

\* next(div_iter, None) raises: the generator fails to produce element j
FetchFails(gen, j) == j > Len(gen.elems) /\ gen.err # "none"

RECURSIVE ParseFrom(_, _, _, _)
\* the while loop of param_parser, with param_div element i of the generator
ParseFrom(gen, i, level, acc) ==
    IF i > Len(gen.elems) THEN [acc EXCEPT !.err = gen.err]
    ELSE
    LET param_div == gen.elems[i]
        inner == param_parser(find_all(param_div, "div"), level)
        f == Form(param_div, level)
        ahead == gen.elems[i + 1]
        marks == obj_class(ahead)
        block == param_parser(find_all(ahead, "div"), level + 1)
    IN  IF Classless(param_div)
        THEN IF inner.err # "none"
             THEN [Traced(acc, i, "wrapper", inner.out) EXCEPT !.err = inner.err]
             ELSE ParseFrom(gen, i + 1, level, Traced(acc, i, "wrapper", inner.out))
        ELSE IF find_all(param_div, "div") = <<>>
        THEN ParseFrom(gen, i + 1, level, Traced(acc, i, "leaf", TwoSpanLeaf(param_div)))
        ELSE IF f.err # "none" THEN [acc EXCEPT !.err = f.err]
        ELSE IF f.kind = "skip"
        THEN ParseFrom(gen, i + 1, level, Traced(acc, i, "skip", <<>>))
        ELSE IF FetchFails(gen, i + 1) THEN [acc EXCEPT !.err = gen.err]
        ELSE IF i + 1 > Len(gen.elems) \/ marks = {}
        THEN ParseFrom(gen, i + 1, level, Traced(acc, i, f.kind, Yield(f, f.param_attrs, <<>>)))
        ELSE IF block.err # "none" THEN [acc EXCEPT !.err = block.err]
        ELSE IF "params-type-non-object" \in marks /\ f.param_attrs # <<>>
        THEN [acc EXCEPT !.err = "AssertionError"]
        ELSE IF FetchFails(gen, i + 2) THEN [acc EXCEPT !.err = gen.err]
        ELSE IF "params-type-non-object" \in marks
        THEN ParseFrom(gen, i + 2, level, Traced(acc, i, f.kind, Yield(f, block.out, <<>>)))
        ELSE ParseFrom(gen, i + 2, level,
                       Traced(acc, i, f.kind, Yield(f, f.param_attrs, block.out)))

\* list(param_parser(divs, level)): the Parameters yielded, the exception
\* raised after them, and the trace of the boundary elements classified
param_parser(divs, level) ==
    ParseFrom(div_generator(divs), 1, level,
              [out |-> <<>>, trace |-> <<>>, err |-> "none"])

(***************************************************************************)
(* The pages the parser is run on.  The classes named here stand for the   *)
(* generated class names of the page: only the two marker classes and the  *)
(* absence of a class attribute matter to the parser.                      *)
(***************************************************************************)
MaxSiblings == 2
MaxNameLen == 3

\* <div><div><div>name</div><div>spans</div></div><div>ps below</div></div>
StdRow(name, spans, ps, below) ==
    Div({"row"}, <<Div({"head"}, <<TextDiv({"name"}, name), Div({"type"}, spans)>>),
                   Div({"doc"}, ps \o below)>>)

\* <div><div>name</div><div>spans</div><div>ps</div> more</div>
FlatRow(name, spans, ps, more) ==
    Div({"row"}, <<TextDiv({"name"}, name), Div({"type"}, spans), Div({"doc"}, ps)>> \o more)

\* <div><span>..</span>..</div>
Leaf(texts) == Div({"value"}, [i \in Idx(texts) |-> Span(texts[i])])

\* a div carrying a marker class
Block(marker, kids) == Div({"params", marker}, kids)

Doc == <<Para(<<"doc">>)>>

\* the type cell: the type, or the type and a type spec
TypeSpans ==
    {<<Span(<<"string">>)>>, <<Span(<<"string">>), Span(<<"required">>)>>,
     <<Span(<<"enum">>)>>, <<Span(<<"boolean">>)>>}

TopNames == {<<"a">>, <<"a", " ", "b">>, <<"7", " ", "b">>}

Values == <<Leaf(<<<<"v">>, <<": ", "one">>>>), Leaf(<<<<"w">>, <<": ", "two">>>>)>>

Field == StdRow(<<"b">>, <<Span(<<"string">>)>>, Doc, <<>>)

\* what is found below a doc cell or in a marker block
Nested ==
    {<<>>, <<Values[1]>>, Values, <<Field>>,
     <<StdRow(<<"b">>, <<Span(<<"enum">>)>>, Doc, Values), Field>>}

\* rows in the standard form: every name with every type cell, and rows
\* with something below their doc cell
StdRows ==
    {StdRow(n, t, Doc, <<>>) : n \in TopNames, t \in TypeSpans}
    \cup {StdRow(n, t, Doc, b) : n \in {<<"a">>, <<"7", " ", "b">>},
                                t \in {<<Span(<<"enum">>)>>,
                                       <<Span(<<"string">>), Span(<<"required">>)>>},
                                b \in Nested \ {<<>>}}

More == <<Div({"more"}, <<Span(<<"Possible values: ">>), Span(<<>>), Span(<<"x">>)>>)>>

FlatRows ==
    {FlatRow(n, t, Doc, m) : n \in {<<"a">>, <<"7", " ", "b">>},
                          t \in {<<Span(<<"enum">>)>>, <<Span(<<"boolean">>), Span(<<"required">>)>>},
                          m \in {<<>>, More}}

Leaves == {Values[1], Leaf(<<<<"v">>>>), Leaf(<<<<"v">>, <<"w">>, <<"x">>>>)}

Blocks == {Block(m, k) : m \in ObjClasses, k \in Nested \ {<<Values[1]>>}}

\* rows below a classless div, below a div with a single child div, below
\* a div with a button, and below classless divs of a classed div
Wrapped ==
    LET row == StdRow(<<"a">>, <<Span(<<"string">>)>>, Doc, <<>>) IN
    {Div({}, <<row, Field>>), Div({"wrap"}, <<row>>),
     Div({"wrap"}, <<Button, row, Field>>),
     Div({"wrap"}, <<Div({}, <<row>>), Div({}, <<Field>>)>>)}

\* pages the parser has no form for
Malformed ==
    {Div({"row"}, <<TextDiv({"name"}, <<"a">>), Div({"doc"}, Doc)>>),
     StdRow(<<"a">>, <<>>, Doc, <<>>),
     FlatRow(<<"a">>, <<>>, Doc, <<>>),
     Div({"wrap"}, <<Button>>)}

Rows == StdRows \cup FlatRows \cup Leaves \cup Blocks \cup Wrapped \cup Malformed

\* the sibling lists of up to MaxSiblings rows
Pages == UNION {[1..n -> Rows] : n \in 1..MaxSiblings}

\* param_parser(input), consumed to its end
ParamParser ==
    /\ ~parsed
    /\ LET r == param_parser(input, 0) IN
       /\ params' = r.out
       /\ perr' = r.err
       /\ trace' = r.trace
    /\ parsed' = TRUE
    /\ UNCHANGED <<input, notParserVars>>

InitParser ==
    /\ EmptyRegistry
    /\ IdleYml
    /\ IdleRest
    /\ input \in Pages
    /\ params = <<>>
    /\ perr = "none"
    /\ trace = <<>>
    /\ parsed = FALSE

\* the parser on the pages
SpecParser == InitParser /\ [][ParamParser]_vars

(***************************************************************************)
(* Claims about param_parser                                               *)
(***************************************************************************)
\* the boundary elements of the parsed page
Boundary == div_generator(input).elems

\* the two-child standard form: a name/type pair followed by a doc cell
IsStdForm(e) ==
    /\ ~Classless(e)
    /\ Len(find_all(e, "div")) = 2
    /\ Len(find_all(find_all(e, "div")[1], "div")) = 2
    /\ Len(find_all(find_all(find_all(e, "div")[1], "div")[2], "span")) \in {1, 2}

\* the type of a row in the standard form, as the page states it
RowType(e) == TextOf(find_all(find_all(find_all(e, "div")[1], "div")[2], "span")[1])

\* the name of a row in the standard form, as parsed
RowName(e) ==
    LET full == TextOf(find_all(find_all(e, "div")[1], "div")[1])
    IN  IF RowType(e) = <<"boolean">> /\ Len(split(full)) > 1 THEN split(full)[1] ELSE full

RECURSIVE AllStd(_)
\* every boundary element of the siblings has the standard form, and so
\* has every boundary element below a doc cell
AllStd(siblings) ==
    LET gen == div_generator(siblings) IN
    /\ gen.err = "none"
    /\ \A i \in Idx(gen.elems) :
        /\ IsStdForm(gen.elems[i])
        /\ AllStd(find_all(find_all(gen.elems[i], "div")[2], "div"))

\* the rows whose name the sanitation lets through
Kept == SelectSeq(Boundary, LAMBDA e : ~sanitize(RowName(e)).drop)

IsLeaf(e) == ~Classless(e) /\ find_all(e, "div") = <<>>

NameAtoms == {"a", "7", "8", "#", " ", "-"}

\* the names of up to MaxNameLen characters
Names == UNION {[1..n -> NameAtoms] : n \in 0..MaxNameLen}

\* one row, in the standard or in the flat form, of type string
InitNames ==
    /\ EmptyRegistry
    /\ IdleYml
    /\ IdleRest
    /\ \E n \in Names :
        \/ input = <<StdRow(n, <<Span(<<"string">>)>>, Doc, <<>>)>>
        \/ input = <<FlatRow(n, <<Span(<<"string">>)>>, Doc, <<>>)>>
    /\ params = <<>>
    /\ perr = "none"
    /\ trace = <<>>
    /\ parsed = FALSE

\* the parser on a single row of any name
SpecNames == InitNames /\ [][ParamParser]_vars

\* the name of the single row of the page
TheName ==
    IF IsStdForm(input[1]) THEN RowName(input[1])
    ELSE TextOf(find_all(input[1], "div")[1])

\* a name of one decimal digit
OneDigit(name) == Len(name) = 1 /\ IsDigit(name[1])

\* C8 as stated: a name matching the pattern is emitted unchanged, '#' is
\* emitted as 'hash', a digit d as 'digit_d', another name that fails the
\* pattern and has several tokens is dropped, and no other name is changed
C8_AsStated ==
    (parsed /\ Len(input) = 1) =>
        /\ perr = "none"
        /\ NameMatch(TheName) => (Len(params) = 1 /\ params[1].name = TheName)
        /\ TheName = <<"#">> => (Len(params) = 1 /\ params[1].name = <<"hash">>)
        /\ OneDigit(TheName) => (Len(params) = 1 /\ params[1].name = <<"digit_">> \o TheName)
        /\ (/\ ~NameMatch(TheName)
            /\ TheName # <<"#">>
            /\ ~OneDigit(TheName)
            /\ Len(split(TheName)) > 1) => params = <<>>
        /\ (params # <<>> /\ params[1].name # TheName)
               => (TheName = <<"#">> \/ OneDigit(TheName))

\* the parts of C8 the code keeps: all of it but for the names that are a
\* run of several ascending digits and the empty name
C8_ButDigitRuns ==
    (parsed /\ Len(input) = 1 /\ ~(InDigits(TheName) /\ ~OneDigit(TheName)))
        => C8_AsStated

RECURSIVE AllParams(_)
\* the Parameters of a list and all Parameters below them
AllParams(ps) ==
    IF ps = <<>> THEN {}
    ELSE {ps[1]} \cup AllParams(ps[1].param_attrs) \cup AllParams(ps[1].param_object)
         \cup AllParams(Tail(ps))

\* the type of a row in the flat form, as the page states it
FlatType(e) == TextOf(find_all(find_all(e, "div")[2], "span")[1])

\* C9: no Parameter at any depth has type 'enum' without attrs and without
\* object, and a row the page types 'enum' that is yielded without attrs
\* and object is yielded with type 'string'
C9_NoBareEnum ==
    parsed =>
        /\ \A p \in AllParams(params) :
            ~(p.type = <<"enum">> /\ p.param_attrs = <<>> /\ p.param_object = <<>>)
        /\ \A k \in Idx(trace) :
            LET e == Boundary[trace[k].i]
                p == params[trace[k].first]
                type == IF trace[k].kind = "std" THEN RowType(e) ELSE FlatType(e)
            IN  (/\ trace[k].kind \in {"std", "flat"}
                 /\ trace[k].n = 1
                 /\ type = <<"enum">>
                 /\ p.param_attrs = <<>>
                 /\ p.param_object = <<>>) => p.type = <<"string">>

\* a row typed 'enum' lost its single value to the doc string, was followed
\* by an empty marker block, and was yielded as a 'string'
C9_Witness ==
    /\ parsed
    /\ perr = "none"
    /\ Len(Boundary) = 2
    /\ IsStdForm(Boundary[1])
    /\ RowType(Boundary[1]) = <<"enum">>
    /\ Len(find_all(find_all(Boundary[1], "div")[2], "div")) = 1
    /\ obj_class(Boundary[2]) # {}
    /\ Len(params) = 1
    /\ params[1].type = <<"string">>

(***************************************************************************)
(* Saving and reloading a document schema.  A str is a text as above and   *)
(* None is NoneText.  The texts of the schemas resolve to a str or to      *)
(* null: none of them reads as a bool or a number.                         *)
(***************************************************************************)
\* the tag yaml's implicit resolvers give a plain scalar
Resolver(text) == IF text \in {<<>>, <<"null">>, <<"~">>} THEN "null" ELSE "str"

Scalar(style, text) == [style |-> style, text |-> text]

\* safe_dump of None and of a str: a str a plain scalar would not load as
\* is quoted
represent(v) ==
    IF v = NoneText THEN Scalar("plain", <<"null">>)
    ELSE IF Resolver(v) # "str" THEN Scalar("quoted", v)
    ELSE Scalar("plain", v)

\* safe_load of a scalar
construct(node) ==
    IF node.style = "plain" /\ Resolver(node.text) = "null" THEN NoneText
    ELSE node.text

\* a Parameter with its link to a Class (0: None)
Linked(p, param_attrs, param_object, param_class) ==
    [name |-> p.name, type |-> p.type, type_spec |-> p.type_spec, doc |-> p.doc,
     param_attrs |-> param_attrs, param_object |-> param_object,
     param_class |-> param_class]

RECURSIVE ParamsDict(_)
\* Parameter.dict(): all fields but param_class, at every depth
ParameterDict(p) ==
    Parameter(p.name, p.type, p.type_spec, p.doc,
              ParamsDict(p.param_attrs), ParamsDict(p.param_object))
ParamsDict(ps) == [i \in Idx(ps) |-> ParameterDict(ps[i])]

\* MethodDetails.dict()
MethodDetailsDict(md) ==
    [header |-> md.header, doc |-> md.doc,
     parameters_and_response |->
         [k \in DOMAIN md.parameters_and_response |->
             ParamsDict(md.parameters_and_response[k])],
     documentation |-> md.documentation]

\* DocMethodDetails.dict(): docs, without info
DocDict(s) ==
    [docs |-> [k \in DOMAIN s.docs |->
                  [i \in Idx(s.docs[k]) |-> MethodDetailsDict(s.docs[k][i])]]]

\* the mapping node of a dict: its value nodes by its key nodes
DumpKeys(d) == {represent(k) : k \in DOMAIN d}
KeyOf(d, node) == CHOOSE k \in DOMAIN d : represent(k) = node

RECURSIVE DumpParams(_)
DumpParameter(p) ==
    [name |-> represent(p.name), type |-> represent(p.type),
     type_spec |-> represent(p.type_spec), doc |-> represent(p.doc),
     param_attrs |-> DumpParams(p.param_attrs),
     param_object |-> DumpParams(p.param_object)]
DumpParams(ps) == [i \in Idx(ps) |-> DumpParameter(ps[i])]

DumpMethodDoc(d) ==
    [http_method |-> represent(d.http_method), endpoint |-> represent(d.endpoint),
     doc_link |-> represent(d.doc_link), doc |-> represent(d.doc)]

DumpMethodDetails(md) ==
    [header |-> represent(md.header), doc |-> represent(md.doc),
     parameters_and_response |->
         [n \in DumpKeys(md.parameters_and_response) |->
             DumpParams(md.parameters_and_response[KeyOf(md.parameters_and_response, n)])],
     documentation |-> DumpMethodDoc(md.documentation)]

\* safe_dump(data)
safe_dump(data) ==
    [docs |-> [n \in DumpKeys(data.docs) |->
                  [i \in Idx(data.docs[KeyOf(data.docs, n)]) |->
                      DumpMethodDetails(data.docs[KeyOf(data.docs, n)][i])]]]

\* the dict of a mapping node: its values by its constructed keys
LoadKeys(m) == {construct(n) : n \in DOMAIN m}
NodeOf(m, k) == CHOOSE n \in DOMAIN m : construct(n) = k

RECURSIVE LoadParams(_)
LoadParameter(n) ==
    Parameter(construct(n.name), construct(n.type), construct(n.type_spec),
              construct(n.doc), LoadParams(n.param_attrs), LoadParams(n.param_object))
LoadParams(ns) == [i \in Idx(ns) |-> LoadParameter(ns[i])]

LoadMethodDoc(n) ==
    [http_method |-> construct(n.http_method), endpoint |-> construct(n.endpoint),
     doc_link |-> construct(n.doc_link), doc |-> construct(n.doc)]

LoadMethodDetails(n) ==
    [header |-> construct(n.header), doc |-> construct(n.doc),
     parameters_and_response |->
         [k \in LoadKeys(n.parameters_and_response) |->
             LoadParams(n.parameters_and_response[NodeOf(n.parameters_and_response, k)])],
     documentation |-> LoadMethodDoc(n.documentation)]

\* safe_load of the YAML document
safe_load(body) ==
    [docs |-> [k \in LoadKeys(body.docs) |->
                  [i \in Idx(body.docs[NodeOf(body.docs, k)]) |->
                      LoadMethodDetails(body.docs[NodeOf(body.docs, k)][i])]]]

RECURSIVE ValidParams(_)
\* the str fields of a Parameter hold a str
ValidParameter(d) ==
    /\ NoneText \notin {d.name, d.type, d.doc}
    /\ ValidParams(d.param_attrs)
    /\ ValidParams(d.param_object)
ValidParams(ds) == \A i \in Idx(ds) : ValidParameter(ds[i])

ValidMethodDetails(d) ==
    /\ NoneText \notin {d.header, d.doc, d.documentation.http_method,
                        d.documentation.endpoint, d.documentation.doc_link,
                        d.documentation.doc}
    /\ NoneText \notin DOMAIN d.parameters_and_response
    /\ \A k \in DOMAIN d.parameters_and_response :
        ValidParams(d.parameters_and_response[k])

\* parse_obj validates: no str field and no key is None
Valid(data) ==
    /\ NoneText \notin DOMAIN data.docs
    /\ \A k \in DOMAIN data.docs :
        \A i \in Idx(data.docs[k]) : ValidMethodDetails(data.docs[k][i])

RECURSIVE ParseParams(_, _)
\* the Parameters of the dicts ds, each linked to param_class
ParseParams(ds, param_class) ==
    [i \in Idx(ds) |->
        Linked(ds[i], ParseParams(ds[i].param_attrs, param_class),
               ParseParams(ds[i].param_object, param_class), param_class)]

\* DocMethodDetails.parse_obj(data): data has no key info, no Parameter
\* gets a param_class
parse_obj(data) ==
    [info |-> NoneText,
     docs |-> [k \in DOMAIN data.docs |->
                  [i \in Idx(data.docs[k]) |->
                      [data.docs[k][i] EXCEPT !.parameters_and_response =
                          [q \in DOMAIN @ |-> ParseParams(@[q], 0)]]]]]

RECURSIVE SplitLines(_, _)
\* the lines of text[i..], split at the line breaks
SplitLines(text, i) ==
    LET ends == {j \in i..Len(text) : text[j] = NL}
        e == CHOOSE j \in ends : \A l \in ends : j <= l
    IN  IF ends = {} THEN (IF i > Len(text) THEN <<>> ELSE <<SubSeq(text, i, Len(text))>>)
        ELSE <<SubSeq(text, i, e - 1)>> \o SplitLines(text, e + 1)

\* a line YAML skips: blank, or a comment
Skipped(line) == strip(line) = <<>> \/ strip(line)[1] \in {"# ", "#"}

\* DocMethodDetails.to_yml(path): the comment line of a non-empty info,
\* then the dump of dict()
to_yml(s) ==
    [head |-> IF s.info \notin {NoneText, <<>>} THEN <<"# ">> \o s.info \o <<NL>> ELSE <<>>,
     body |-> safe_dump(DocDict(s))]

\* DocMethodDetails.from_yml(path): text before the document that is no
\* comment makes the load raise
from_yml(f) ==
    LET lines == SplitLines(f.head, 1)
        data == safe_load(f.body)
    IN  IF \E i \in Idx(lines) : ~Skipped(lines[i])
        THEN [err |-> "YAMLError", obj |-> <<>>]
        ELSE IF ~Valid(data) THEN [err |-> "ValidationError", obj |-> <<>>]
        ELSE [err |-> "none", obj |-> parse_obj(data)]

\* the strs of the schemas: a word, a word YAML reads as null, the empty str
YmlStrs == {<<"a">>, <<"null">>, <<>>}

\* type_spec: None or a str
YmlTypeSpecs == {NoneText, <<"null">>, <<"required">>}

\* info: None, the empty str, one line, two lines
YmlInfos == {NoneText, <<>>, <<"generated">>, <<"generated", NL, "today">>}

\* a Parameter without children, and a Parameter holding it
YmlLeaves ==
    {Linked(Parameter(n, <<"string">>, ts, <<"doc">>, <<>>, <<>>), <<>>, <<>>, pc) :
        n \in YmlStrs, ts \in YmlTypeSpecs, pc \in {0, 1}}

YmlParameters ==
    YmlLeaves \cup
    {Linked(Parameter(<<"a">>, <<"enum">>, NoneText, <<>>, <<>>, <<>>), <<p>>, <<>>, 0) :
        p \in YmlLeaves}

YmlMethodDoc ==
    [http_method |-> <<"GET">>, endpoint |-> <<"/", "a">>, doc_link |-> <<>>, doc |-> <<"doc">>]

YmlMethods ==
    {[header |-> <<"a">>, doc |-> <<"null">>,
      parameters_and_response |-> par, documentation |-> YmlMethodDoc] :
        par \in {<<>>} \cup {[k \in {key} |-> <<p>>] : key \in YmlStrs, p \in YmlParameters}}

\* docs: no section, or one section of one method
YmlDocs == {<<>>} \cup {[k \in {key} |-> <<md>>] : key \in {<<"a">>, <<"null">>}, md \in YmlMethods}

InitYml ==
    /\ EmptyRegistry
    /\ IdleParser
    /\ IdleRest
    /\ schema \in [info : YmlInfos, docs : YmlDocs]
    /\ file = <<>>
    /\ loaded = <<>>
    /\ yerr = "none"
    /\ ypc = "new"

\* schema.to_yml(path)
ToYml ==
    /\ ypc = "new"
    /\ file' = to_yml(schema)
    /\ ypc' = "written"
    /\ UNCHANGED <<schema, loaded, yerr, notYmlVars>>

\* DocMethodDetails.from_yml(path)
FromYml ==
    /\ ypc = "written"
    /\ LET r == from_yml(file) IN
       /\ loaded' = r.obj
       /\ yerr' = r.err
    /\ ypc' = "loaded"
    /\ UNCHANGED <<schema, file, notYmlVars>>

NextYml == ToYml \/ FromYml

\* a schema saved and reloaded
SpecYml == InitYml /\ [][NextYml]_vars

RECURSIVE Unlinked(_)
\* the Parameters ps with every param_class link cleared
Unlinked(ps) ==
    [i \in Idx(ps) |->
        Linked(ps[i], Unlinked(ps[i].param_attrs), Unlinked(ps[i].param_object), 0)]

\* docs with every param_class link cleared
UnlinkedDocs(docs) ==
    [k \in DOMAIN docs |->
        [i \in Idx(docs[k]) |->
            [docs[k][i] EXCEPT !.parameters_and_response =
                [q \in DOMAIN @ |-> Unlinked(@[q])]]]]

\* C10 as stated: the schema from_yml returns for the file to_yml wrote
\* equals the saved schema in info and in docs, the param_class links aside
C10_AsStated ==
    ypc = "loaded" =>
        /\ yerr = "none"
        /\ loaded.info = schema.info
        /\ UnlinkedDocs(loaded.docs) = UnlinkedDocs(schema.docs)

\* what the reload keeps: docs, for a schema whose info is None; a schema
\* with a one-line info comes back with the same docs and info None
C10_DocsKept ==
    (ypc = "loaded" /\ \A i \in Idx(schema.info) : schema.info[i] # NL) =>
        /\ yerr = "none"
        /\ loaded.info = NoneText
        /\ UnlinkedDocs(loaded.docs) = UnlinkedDocs(schema.docs)

\* an info of two lines leaves a file from_yml cannot load
C10_TwoLines ==
    (ypc = "loaded" /\ \E i \in Idx(schema.info) : schema.info[i] = NL) =>
        yerr = "YAMLError"

(***************************************************************************)
(* docs_from_submenu_items                                                 *)
(***************************************************************************)
IGNORE_MENUS ==
    {"BroadWorks Billing Reports", "BroadWorks Device Provisioning",
     "BroadWorks Enterprises", "BroadWorks Subscribers", "Recording Report",
     "Video Mesh", "Wholesale Billing Reports", "Wholesale Customers",
     "Wholesale Subscribers"}

\* range(3): the waits attempted per click
MaxAttempts == 3

\* i < 2: the attempts after which a stale element is tried again
RetryBelow == 2

\* the longest menu
MaxMenus == 2

\* the labels of the submenus
Labels == {"Call Controls", "Video Mesh"}

\* self.baseline: None, or a DocMethodDetails with its docs
NoBaseline == [present |-> FALSE, docs |-> <<>>]
BaselineOf(docs) == [present |-> TRUE, docs |-> docs]

Baselines ==
    {NoBaseline, BaselineOf(<<>>),
     BaselineOf([l \in {"Call Controls"} |-> <<>>]),
     BaselineOf([l \in {"Call Controls"} |-> <<"m">>]),
     BaselineOf([l \in Labels |-> IF l = "Video Mesh" THEN <<>> ELSE <<"m">>])}

\* what the page does on a click: the wait meets a stale element `stales`
\* times; then the container with header `header` and the methods `methods`
\* shows up (final "ok") or no container shows up in time (final "timeout")
Behaviours ==
    {[stales |-> s, final |-> "ok", header |-> h, methods |-> m] :
        s \in 0..RetryBelow, h \in {"H1", "H2"}, m \in {<<>>, <<"m">>}}
    \cup {[stales |-> s, final |-> "timeout", header |-> "H1", methods |-> <<>>] :
        s \in 0..MaxAttempts}

SectionDoc(menu_text, methods) == [menu_text |-> menu_text, methods |-> methods]

\* a submenu that is skipped whenever a baseline is given
ignore_AnyBaseline(run, submenu_text) ==
    IF run.baseline.present THEN TRUE ELSE submenu_text \in IGNORE_MENUS

\* the decision whether to skip a submenu
ignore(run, submenu_text) ==
    IF run.baseline.present
    THEN IF run.new_only
         THEN submenu_text \in DOMAIN run.baseline.docs
         ELSE /\ submenu_text \in DOMAIN run.baseline.docs
              /\ run.baseline.docs[submenu_text] = <<>>
    ELSE submenu_text \in IGNORE_MENUS

RECURSIVE WaitFrom(_, _, _)
\* attempt i (from 0) of the wait for a new container after a click
WaitFrom(b, prev, i) ==
    IF i < b.stales
    THEN IF i < RetryBelow /\ i + 1 \in 0..(MaxAttempts - 1)
         THEN WaitFrom(b, prev, i + 1)
         ELSE [attempts |-> i + 1, outcome |-> "stale"]
    ELSE IF b.final = "ok" /\ b.header # prev
         THEN [attempts |-> i + 1, outcome |-> "ok"]
         ELSE [attempts |-> i + 1, outcome |-> "timeout"]

\* what a run records of a submenu it processed
Logged(run, outcome, attempts, yielded, prev) ==
    [run EXCEPT
        !.log = Append(@, [outcome |-> outcome, clicked |-> outcome # "skipped",
                           attempts |-> attempts, first |-> Len(run.emitted) + 1,
                           n |-> Len(yielded), prev_before |-> run.prev,
                           prev_after |-> prev]),
        !.emitted = @ \o yielded,
        !.prev = prev]

\* a skip that forgets the container header
Skip_ForgetsHeader(run, submenu_text) ==
    Logged(run, "skipped", 0, <<SectionDoc(submenu_text, <<>>)>>, None)

\* a skip that yields nothing
Skip_Silent(run, submenu_text) ==
    Logged(run, "skipped", 0, <<>>, run.prev)

\* a skipped submenu
Skip(run, submenu_text) ==
    Logged(run, "skipped", 0, <<SectionDoc(submenu_text, <<>>)>>, run.prev)

\* a scrape that is over with the first timeout
Scrape_TimeoutEnds(run, submenu_text, b) ==
    LET w == WaitFrom(b, run.prev, 0) IN
    IF w.outcome = "ok"
    THEN Logged(run, "ok", w.attempts, <<SectionDoc(submenu_text, b.methods)>>, b.header)
    ELSE [Logged(run, w.outcome, w.attempts, <<>>, run.prev)
              EXCEPT !.err = "StaleElementReferenceException"]

\* a submenu that is clicked: the wait, and what follows it
Scrape(run, submenu_text, b) ==
    LET w == WaitFrom(b, run.prev, 0) IN
    IF w.outcome = "ok"
    THEN Logged(run, "ok", w.attempts, <<SectionDoc(submenu_text, b.methods)>>, b.header)
    ELSE IF w.outcome = "timeout"
    THEN Logged(run, "timeout", w.attempts, <<>>, run.prev)
    ELSE [Logged(run, "stale", w.attempts, <<>>, run.prev)
              EXCEPT !.err = "StaleElementReferenceException"]

\* one pass of the loop over the submenus
Iteration(run, submenu_text, b) ==
    IF ignore(run, submenu_text) THEN Skip(run, submenu_text)
    ELSE Scrape(run, submenu_text, b)

\* a run before its first submenu
NewRun(baseline, new_only) ==
    [baseline |-> baseline, new_only |-> new_only, prev |-> None,
     emitted |-> <<>>, log |-> <<>>, err |-> "none"]

\* the menus of up to MaxMenus submenus
Menus == UNION {[1..n -> Labels] : n \in 1..MaxMenus}

InitMenu ==
    /\ EmptyRegistry
    /\ IdleParser
    /\ IdleYml
    /\ IdleDetails
    /\ IdleUpdate
    /\ IdleRace
    /\ IdleList
    /\ submenus \in Menus
    /\ \E b1 \in Baselines, b2 \in Baselines, n1 \in BOOLEAN, n2 \in BOOLEAN :
        runs = <<NewRun(b1, n1), NewRun(b2, n2)>>
    /\ shown = <<>>

\* the next submenu, in both runs: the page does the same in both
Submenu ==
    /\ Len(shown) < Len(submenus)
    /\ \E r \in Idx(runs) : runs[r].err = "none"
    /\ \E b \in Behaviours :
        /\ runs' = [r \in Idx(runs) |->
                       IF runs[r].err = "none"
                       THEN Iteration(runs[r], submenus[Len(shown) + 1], b)
                       ELSE runs[r]]
        /\ shown' = Append(shown, b)
    /\ UNCHANGED <<submenus, regVars, parserVars, ymlVars, detailVars, updateVars, raceVars, listVars>>

\* two runs of docs_from_submenu_items over one menu
SpecMenu == InitMenu /\ [][Submenu]_vars

\* the runs whose generator is exhausted
Finished(r) == runs[r].err = "none" /\ Len(runs[r].log) = Len(submenus)

\* C11: a submenu is skipped exactly if: without a baseline, its label is on
\* the ignore list; with a baseline and new_only, its label is a key of the
\* baseline's docs; with a baseline and not new_only, its label is a key of
\* the baseline's docs with an empty list.  A submenu not skipped is clicked
C11_SkipDecision ==
    \A r \in Idx(runs) : \A j \in Idx(runs[r].log) :
        LET label == submenus[j]
            docs == runs[r].baseline.docs
            skipped == runs[r].log[j].outcome = "skipped"
        IN  /\ ~runs[r].baseline.present => (skipped <=> label \in IGNORE_MENUS)
            /\ (runs[r].baseline.present /\ runs[r].new_only)
                   => (skipped <=> label \in DOMAIN docs)
            /\ (runs[r].baseline.present /\ ~runs[r].new_only)
                   => (skipped <=> (label \in DOMAIN docs /\ docs[label] = <<>>))
            /\ ~skipped => runs[r].log[j].clicked

\* one menu under three policies' worth of decisions: a label on the ignore
\* list is scraped under a baseline that lacks it, and a label with an empty
\* list in the baseline is skipped without new_only
C11_Witness ==
    /\ Len(submenus) = 2
    /\ Finished(1) /\ Finished(2)
    /\ ~runs[1].baseline.present
    /\ runs[2].baseline.present /\ ~runs[2].new_only
    /\ submenus[1] = "Video Mesh" /\ submenus[2] = "Call Controls"
    /\ runs[1].log[1].outcome = "skipped" /\ runs[1].log[2].clicked
    /\ runs[2].log[1].clicked /\ runs[2].log[2].outcome = "skipped"

\* C12: a skipped submenu yields one SectionDoc with its label and no
\* methods; it is not clicked, no wait is attempted and the previous
\* container header stays
C12_SkipFrame ==
    \A r \in Idx(runs) : \A j \in Idx(runs[r].log) :
        LET e == runs[r].log[j] IN
        e.outcome = "skipped" =>
            /\ e.n = 1
            /\ runs[r].emitted[e.first] = SectionDoc(submenus[j], <<>>)
            /\ ~e.clicked
            /\ e.attempts = 0
            /\ e.prev_after = e.prev_before

\* a submenu skipped after a scraped one: the header of the scraped one stays
C12_Witness ==
    \E r \in Idx(runs) :
        /\ Len(runs[r].log) = 2
        /\ runs[r].log[1].outcome = "ok"
        /\ runs[r].log[2].outcome = "skipped"
        /\ runs[r].prev = shown[1].header
        /\ Len(runs[r].emitted) = 2

\* the labels of the SectionDocs a run yielded
EmittedLabels(r) == [i \in Idx(runs[r].emitted) |-> runs[r].emitted[i].menu_text]

\* the labels of the submenus for which a run yielded a SectionDoc
RECURSIVE YieldedFor(_, _)
YieldedFor(r, j) ==
    IF j > Len(runs[r].log) THEN <<>>
    ELSE (IF runs[r].log[j].outcome \in {"skipped", "ok"} THEN <<submenus[j]>> ELSE <<>>)
         \o YieldedFor(r, j + 1)

\* the policies of the two runs differ
PoliciesDiffer ==
    runs[1].baseline # runs[2].baseline \/ runs[1].new_only # runs[2].new_only

\* C13 as stated: two runs over the same menu and page that differ in the
\* ignore policy and come to their end have each yielded one SectionDoc per
\* submenu, with the labels of the menu in menu order
C13_AsStated ==
    (Finished(1) /\ Finished(2) /\ PoliciesDiffer) =>
        /\ EmittedLabels(1) = submenus
        /\ EmittedLabels(2) = submenus

\* C13: each run yields, in menu order, one SectionDoc for every submenu it
\* skipped and for every submenu whose new container showed up, and none for
\* a submenu whose wait failed; two runs that come to their end without a
\* failed wait have yielded the labels of the menu, whatever their policies
C13_LabelsButFailedWaits ==
    /\ \A r \in Idx(runs) : EmittedLabels(r) = YieldedFor(r, 1)
    /\ (/\ Finished(1) /\ Finished(2)
        /\ \A r \in Idx(runs) : \A j \in Idx(runs[r].log) :
               runs[r].log[j].outcome # "timeout")
           => (EmittedLabels(1) = submenus /\ EmittedLabels(2) = submenus)

\* a submenu skipped by one run and scraped by the other, both runs at
\* their end with the labels of the menu
C13_Witness ==
    /\ Len(submenus) = 2
    /\ Finished(1) /\ Finished(2)
    /\ PoliciesDiffer
    /\ runs[1].log[1].outcome = "skipped" /\ runs[2].log[1].outcome = "ok"
    /\ runs[1].log[2].outcome = "ok" /\ runs[2].log[2].outcome = "skipped"
    /\ EmittedLabels(1) = submenus /\ EmittedLabels(2) = submenus

\* C15: a wait that times out yields no SectionDoc for the submenu and
\* leaves the previous container header; the run goes on with the next
\* submenu
C15_TimeoutAbandons ==
    \A r \in Idx(runs) : \A j \in Idx(runs[r].log) :
        LET e == runs[r].log[j] IN
        e.outcome = "timeout" =>
            /\ e.n = 0
            /\ e.prev_after = e.prev_before
            /\ (j = Len(runs[r].log) => runs[r].err = "none")
            /\ (Len(shown) > j => Len(runs[r].log) > j)

\* a timeout on the first submenu, and the second submenu scraped
C15_Witness ==
    \E r \in Idx(runs) :
        /\ Len(runs[r].log) = 2
        /\ runs[r].log[1].outcome = "timeout"
        /\ runs[r].log[2].outcome = "ok"
        /\ EmittedLabels(r) = <<submenus[2]>>
        /\ runs[r].prev = shown[2].header

\* C16 as stated: the wait is attempted at most three times per click, a
\* stale element on the first or second attempt is followed by another
\* attempt, and a stale element on the third attempt abandons the section
\* like a timeout: the run goes on
C16_AsStated ==
    \A r \in Idx(runs) : \A j \in Idx(runs[r].log) :
        LET e == runs[r].log[j] IN
        e.clicked =>
            /\ e.attempts <= 3
            /\ \A i \in 1..2 : shown[j].stales >= i => e.attempts > i
            /\ shown[j].stales >= 3 =>
                /\ e.n = 0
                /\ e.prev_after = e.prev_before
                /\ runs[r].err = "none"

\* the parts of C16 the code keeps: at most three attempts, another attempt
\* after a stale element on the first or second
C16_Retries ==
    \A r \in Idx(runs) : \A j \in Idx(runs[r].log) :
        LET e == runs[r].log[j] IN
        e.clicked =>
            /\ e.attempts <= 3
            /\ \A i \in 1..2 : shown[j].stales >= i => e.attempts > i
            /\ shown[j].stales >= 3 => runs[r].err = "StaleElementReferenceException"


(***************************************************************************)
(* The registry when the suffixes of a name run out                        *)
(***************************************************************************)
\* classes of other names are among the first MaxOthers constructed
MaxOthers == 1

\* the names requested while the registry fills up
FillNames == {"X", "Y"}

\* name and name1..name99 are all keys of the registry
Exhausted(reg, name) ==
    /\ RegGet(reg, name) # 0
    /\ \A i \in 1..MaxSuffix : RegGet(reg, name \o ToString(i)) # 0

\* Class(name=n, attributes=[]) while the registry fills up; the
\* construction that finds no free suffix raises and creates nothing
Fill(n) ==
    /\ err = "none"
    /\ last.op # "Rename"
    /\ n # "X" => Len(classes) < MaxOthers
    /\ LET c == Len(classes) + 1
           r == SetName(Append(classes, NewClass(<<>>)), registry, c, n)
       IN  /\ IF r.err = "none"
              THEN /\ classes' = r.classes
                   /\ registry' = r.registry
              ELSE UNCHANGED <<classes, registry>>
           /\ err' = r.err
           /\ last' = [op |-> "Construct", c |-> c, name |-> n]
    /\ UNCHANGED <<out, done, notRegVars>>

\* cls.name = 'X' for an existing instance c, once X and X1..X99 are taken
Exhaust(c) ==
    /\ err = "none"
    /\ last.op # "Rename"
    /\ Exhausted(registry, "X")
    /\ Rename(c, "X")

NextExhaust ==
    \/ \E n \in FillNames : Fill(n)
    \/ \E c \in 1..(MaxSuffix + 1 + MaxOthers) : Exhaust(c)

SpecExhaust == InitRegistry /\ [][NextExhaust]_vars

\* C14 as stated: when X and X1..X99 are all keys of the registry, a
\* further registration of the requested name X, at construction or by a
\* rename, raises an error and leaves the registry as it was
C14_AsStated ==
    [][(Exhausted(registry, "X") /\ last'.name = "X")
          => (err' # "none" /\ registry' = registry)]_vars

\* the part of C14 that holds: a construction with the requested name X
\* raises StopIteration and leaves registry and classes as they were
C14_Construction ==
    [][(Exhausted(registry, "X") /\ last'.name = "X" /\ last'.op = "Construct")
          => (err' = "StopIteration" /\ registry' = registry /\ classes' = classes)]_vars

\* the rename of a class of another name to X has failed: the registry has
\* lost the old name and the instance is called X without being registered
C14_RenameLosesKey ==
    /\ last.op = "Rename" /\ err = "StopIteration"
    /\ classes[last.c]._name = "X"
    /\ RegGet(registry, "X") # last.c
    /\ \A i \in Idx(registry) : registry[i].id # last.c


(***************************************************************************)
(* get_method_details                                                      *)
(*                                                                         *)
(* One call, a step per page fetched.  doc_link is the local variable of   *)
(* that name, fetched the links handed to driver.get with the page each    *)
(* returned, details what the call returned: value is <<>> for None and    *)
(* the one MethodDetails otherwise.  derr is the exception that left the   *)
(* call.  A link is its host followed by the atoms of the href.            *)
(***************************************************************************)
Host == "https://developer.webex.com"

RECURSIVE SkipDots(_, _)
SkipDots(s, i) == IF i <= Len(s) /\ s[i] = "." THEN SkipDots(s, i + 1) ELSE i

RECURSIVE LastNonDot(_, _)
LastNonDot(s, i) == IF i >= 1 /\ s[i] = "." THEN LastNonDot(s, i - 1) ELSE i

\* a strip that leaves the trailing periods
strip_dots_Left(s) == SubSeq(s, SkipDots(s, 1), Len(s))

\* str.strip('.'): the periods at both ends removed
strip_dots(s) == SubSeq(s, SkipDots(s, 1), LastNonDot(s, Len(s)))

\* str.endswith('.')
endswith_dot(s) == s # <<>> /\ s[Len(s)] = "."

RECURSIVE FindIn(_, _, _)
\* the first element called name in document order among tags[i..] and
\* what is below them
FindIn(tags, i, name) ==
    IF i > Len(tags) THEN NoTag
    ELSE IF tags[i].tag = name THEN tags[i]
    ELSE LET below == FindIn(tags[i].kids, 1, name)
         IN  IF below # NoTag THEN below ELSE FindIn(tags, i + 1, name)

\* tag.<name>, as in api_ref_descr.div.h4
Find(tag, name) == FindIn(tag.kids, 1, name)

\* result[k] = v
DictSet(d, k, v) ==
    IF \E i \in Idx(d) : d[i].key = k
    THEN [i \in Idx(d) |-> IF d[i].key = k THEN [key |-> k, value |-> v] ELSE d[i]]
    ELSE Append(d, [key |-> k, value |-> v])

RECURSIVE GroupsFrom(_, _, _, _)
\* result[header.text] = parsed_params, where r is what param_parser gave
\* for the group
GroupParsed(headers, groups, i, result, r) ==
    IF r.err # "none" THEN [result |-> result, err |-> r.err]
    ELSE GroupsFrom(headers, groups, i + 1, DictSet(result, TextOf(headers[i]), r.out))

\* for header, parameters in zip(headers, parameter_groups)
GroupsFrom(headers, groups, i, result) ==
    IF i > Len(headers) THEN [result |-> result, err |-> "none"]
    ELSE GroupParsed(headers, groups, i, result,
                     param_parser(find_all(groups[i], "div"), 0))

RECURSIVE DivsFrom(_, _, _)
\* the next div, where g is what the groups of this div gave
DivParsed(divs, i, g) ==
    IF g.err # "none" THEN g ELSE DivsFrom(divs, i + 1, g.result)

\* for div in divs
DivsFrom(divs, i, result) ==
    IF i > Len(divs) THEN [result |-> result, err |-> "none"]
    ELSE LET div == IF Classless(divs[i]) THEN FirstDiv(divs[i]) ELSE divs[i] IN
         IF div = NoTag THEN DivsFrom(divs, i + 1, result)
         ELSE LET headers == find_all(div, "h6")
                  parameter_groups == SelectSeq(div.kids, LAMBDA k : "vertical-up" \in k.cls)
              IN  IF Len(headers) # Len(parameter_groups)
                  THEN [result |-> result, err |-> "AssertionError"]
                  ELSE DivParsed(divs, i, GroupsFrom(headers, parameter_groups, 1, result))

\* params_and_response_from_divs(divs)
params_and_response_from_divs(divs) == DivsFrom(divs, 1, <<>>)


\* MethodDetails(header, doc, parameters_and_response, documentation)
MethodDetails(header, doc, parameters_and_response, documentation) ==
    [header |-> header, doc |-> doc,
     parameters_and_response |-> parameters_and_response,
     documentation |-> documentation]

\* the MethodDetails of a page with header and paragraphs, where par is
\* what params_and_response_from_divs gave
Detailed(h4, doc_paragraphs, par, link) ==
    IF par.err # "none" THEN [value |-> <<>>, err |-> par.err]
    ELSE [value |-> <<MethodDetails(
                        TextOf(h4),
                        join(<<NL>>, [i \in Idx(doc_paragraphs) |-> TextOf(doc_paragraphs[i])]),
                        par.result, link)>>,
          err |-> "none"]

\* what get_method_details does with the description container, once found:
\* the value returned (<<>> for None) and the exception raised
FromContainer(api_ref_descr, link) ==
    LET first == Find(api_ref_descr, "div")
        h4 == IF first = NoTag THEN NoTag ELSE Find(first, "h4")
    IN  IF first = NoTag \/ h4 = NoTag
        THEN \* AttributeError, caught
             [value |-> <<>>, err |-> "none"]
        ELSE LET inner == Find(first, "div") IN
             IF inner = NoTag THEN [value |-> <<>>, err |-> "AttributeError"]
             ELSE LET doc_paragraphs == find_all(inner, "p") IN
                  IF doc_paragraphs = <<>> THEN [value |-> <<>>, err |-> "AssertionError"]
                  ELSE LET all == find_all(api_ref_descr, "div") IN
                       Detailed(h4, doc_paragraphs,
                                params_and_response_from_divs(SubSeq(all, 2, Len(all) - 1)),
                                link)

\* the longest href, in atoms
MaxHref == 3

HrefAtoms == {"/", "a", "."}

\* f"https://developer.webex.com{href}"
Links == {<<Host>> \o h : h \in UNION {[1..n -> HrefAtoms] : n \in 0..MaxHref}}

Descr(kids) == Div({"api-reference__description"}, kids)

H4 == Tag("h4", {}, <<>>, <<"Read">>)

Paragraphs == Div({}, <<Para(<<"one">>), Para(<<"two">>)>>)

\* a div of parameters: an h6 and a vertical-up div of rows
ParamsOf(rows) ==
    Div({"params"}, <<Tag("h6", {}, <<>>, <<"Query Parameters">>), Div({"vertical-up"}, rows)>>)

ResponseCodes == Div({"codes"}, <<>>)

\* the pages driver.get may come back with: without the description
\* container, with a container that has no div, no h4, no inner div, no
\* paragraph, and with the full description and none or one div of
\* parameters
DetailPages ==
    {NoTag,
     Descr(<<>>),
     Descr(<<Div({}, <<Paragraphs>>)>>),
     Descr(<<Div({}, <<H4>>)>>),
     Descr(<<Div({}, <<H4, Div({}, <<>>)>>)>>),
     Descr(<<Div({}, <<H4, Paragraphs>>), ResponseCodes>>),
     Descr(<<Div({}, <<H4, Paragraphs>>), ParamsOf(<<Field>>), ResponseCodes>>),
     Descr(<<Div({}, <<H4, Paragraphs>>), ParamsOf(<<StdRow(<<"a">>, <<>>, Doc, <<>>)>>), ResponseCodes>>)}

InitDetails ==
    /\ EmptyRegistry
    /\ IdleParser
    /\ IdleYml
    /\ IdleMenu
    /\ IdleUpdate
    /\ IdleRace
    /\ IdleList
    /\ doc_link \in Links
    /\ fetched = <<>>
    /\ details = [returned |-> FALSE, value |-> <<>>]
    /\ derr = "none"
    /\ dpc = "fetch"

\* one pass of the loop of get_method_details: driver.get(doc_link), and
\* either another pass or the rest of the call
Get ==
    /\ dpc = "fetch"
    /\ \E page \in DetailPages :
        /\ fetched' = Append(fetched, [link |-> doc_link, page |-> page])
        /\ IF page = NoTag
           THEN IF endswith_dot(doc_link)
                THEN /\ doc_link' = strip_dots(doc_link)
                     /\ UNCHANGED <<details, derr, dpc>>
                ELSE /\ details' = [returned |-> TRUE, value |-> <<>>]
                     /\ dpc' = "done"
                     /\ UNCHANGED <<doc_link, derr>>
           ELSE LET r == FromContainer(page, fetched'[1].link) IN
                /\ details' = [returned |-> r.err = "none", value |-> r.value]
                /\ derr' = r.err
                /\ dpc' = "done"
                /\ UNCHANGED doc_link
    /\ UNCHANGED <<regVars, parserVars, ymlVars, menuVars, updateVars, raceVars, listVars>>

SpecDetails == InitDetails /\ [][Get]_vars


\* C17: get_method_details fetches at most two pages; a second page is
\* fetched only when the first came without the description container and
\* the link ends with a period, and then for the link without its trailing
\* periods; when the last page fetched has no description container, or a
\* container without the header heading, the call returns None and raises
\* nothing
C17_TwoFetches ==
    /\ Len(fetched) <= 2
    /\ Len(fetched) = 2 =>
        /\ fetched[1].page = NoTag
        /\ endswith_dot(fetched[1].link)
        /\ fetched[2].link = SubSeq(fetched[1].link, 1, LastNonDot(fetched[1].link, Len(fetched[1].link)))
    /\ (dpc = "fetch" /\ fetched # <<>>) =>
        (Len(fetched) = 1 /\ fetched[1].page = NoTag /\ endswith_dot(fetched[1].link))
    /\ dpc = "done" =>
        LET page == fetched[Len(fetched)].page
            absent == page = NoTag
            headless == ~absent /\ (Find(page, "div") = NoTag
                                    \/ Find(Find(page, "div"), "h4") = NoTag)
        IN  (absent \/ headless) =>
                (details.returned /\ details.value = <<>> /\ derr = "none")

\* a link with trailing periods fetched without success, the link without
\* them fetched without success either, and None returned
C17_Witness ==
    /\ dpc = "done"
    /\ Len(fetched) = 2
    /\ fetched[1].link = <<Host, "/", ".", ".">>
    /\ fetched[2].link = <<Host, "/">>
    /\ fetched[2].page = NoTag
    /\ details.returned /\ details.value = <<>>

\* a page with the full description yields its MethodDetails
C17_Details ==
    /\ dpc = "done" /\ Len(fetched) = 2
    /\ details.returned /\ details.value # <<>>
    /\ details.value[1].parameters_and_response # <<>>


(***************************************************************************)
(* RoomsApi.update and MessagesApi.update                                  *)
(*                                                                         *)
(* An entity is its identifier (room_id / message_id) and one further      *)
(* field (title / text), both Optional[str]: NoneText or a text.  sent     *)
(* holds the PUT requests issued, call the latest call, raised the         *)
(* exception it ended with.                                                *)
(***************************************************************************)
\* the PUT requests of a session
MaxRequests == 2

Apis == {"rooms", "messages"}

Ids == {NoneText, <<>>, <<"r">>, <<"r", "1">>}

FieldTexts == {NoneText, <<"t">>}

\* the message of the ValueError of each update
Required(api) == IF api = "rooms" THEN "ValueError: roomId is required"
                 ELSE "ValueError: messageId is required"

\* not all(v is not None for v in id): iterating None raises TypeError,
\* the elements of a str are its characters
id_check(id) ==
    IF id = NoneText THEN "TypeError"
    ELSE IF ~(\A i \in Idx(id) : id[i] # None) THEN "ValueError"
    ELSE "none"

\* the body of the request: the fields the update does not exclude
Data(api, id, text) ==
    IF api = "rooms" THEN << <<"id", id>>, <<"title", text>> >>
    ELSE << <<"text", text>> >>

\* api.update(entity)
Update(api, id, text) ==
    /\ Len(sent) < MaxRequests
    /\ call' = [api |-> api, id |-> id, text |-> text]
    /\ LET e == id_check(id) IN
       IF e = "ValueError"
       THEN /\ raised' = Required(api)
            /\ UNCHANGED sent
       ELSE IF e # "none"
       THEN /\ raised' = e
            /\ UNCHANGED sent
       ELSE /\ raised' = "none"
            /\ sent' = Append(sent, [api |-> api, path |-> id, data |-> Data(api, id, text)])
    /\ UNCHANGED <<regVars, parserVars, ymlVars, menuVars, detailVars, raceVars, listVars>>

InitUpdate ==
    /\ EmptyRegistry
    /\ IdleParser
    /\ IdleYml
    /\ IdleMenu
    /\ IdleDetails
    /\ IdleRace
    /\ IdleList
    /\ IdleUpdate

NextUpdate == \E api \in Apis, id \in Ids, text \in FieldTexts : Update(api, id, text)

SpecUpdate == InitUpdate /\ [][NextUpdate]_vars

\* C18 as stated: an update of an entity without identifier raises the
\* ValueError naming the identifier, and no PUT request is issued
C18_AsStated ==
    [][call'.id = NoneText => (raised' = Required(call'.api) /\ sent' = sent)]_vars

\* the part of C18 that holds: an update of an entity without identifier
\* raises, and no PUT request is issued
C18_NothingSent ==
    [][call'.id = NoneText => (raised' # "none" /\ sent' = sent)]_vars

\* an update of an entity without identifier has raised TypeError
C18_TypeError ==
    call.api \in Apis /\ call.id = NoneText /\ raised = "TypeError"


\* C19 as stated: of every Parameter param_parser yields, at any depth, at
\* most one of the lists param_attrs and param_object is non-empty
C19_AsStated ==
    parsed => \A p \in AllParams(params) : p.param_attrs = <<>> \/ p.param_object = <<>>

\* a Parameter with values below its doc cell and the fields of a
\* params-type-object block
C19_Both ==
    /\ parsed /\ perr = "none"
    /\ \E p \in AllParams(params) : p.param_attrs # <<>> /\ p.param_object # <<>>

\* a row in the standard form with nothing below its doc cell
IsPlainRow(e) == IsStdForm(e) /\ find_all(find_all(e, "div")[2], "div") = <<>>

\* the rows of the page that are in the standard form, in order
PlainRows == SelectSeq(input, IsPlainRow)

\* on the page, rows in the standard form with nothing below them and
\* elements of no known shape, at least one of these
Unrecognised ==
    /\ \A i \in Idx(input) : IsPlainRow(input[i]) \/ input[i] \in Malformed
    /\ \E i \in Idx(input) : input[i] \in Malformed

\* C20 as stated: an element of no known shape yields no Parameter and
\* raises nothing, and the other siblings are parsed and yielded
C20_AsStated ==
    (parsed /\ Unrecognised) =>
        /\ perr = "none"
        /\ Len(params) = Len(PlainRows)
        /\ \A i \in Idx(params) : params[i].name = sanitize(RowName(PlainRows[i])).name

\* the part of C20 that holds: an element of no known shape yields no
\* Parameter, and the rows before the first element that raises are yielded
C20_NothingYielded ==
    (parsed /\ Unrecognised) =>
        /\ Len(params) <= Len(PlainRows)
        /\ \A i \in Idx(params) : params[i].name = sanitize(RowName(PlainRows[i])).name
        /\ perr \in {"none", "AssertionError", "AttributeError", "RuntimeError"}

\* a row without type spans has raised AssertionError and the row after it
\* was not parsed
C20_Raised ==
    /\ parsed /\ Unrecognised
    /\ Len(input) = 2 /\ input[1] \in Malformed /\ IsPlainRow(input[2])
    /\ perr = "AssertionError"
    /\ params = <<>>


(***************************************************************************)
(* Properties of the inferred hierarchy                                    *)
(***************************************************************************)
\* no class has a base
BaseLess(cls) == \A c \in Idx(cls) : cls[c].base = None

\* a class with a base is the base of another class
Tiered(cls) ==
    \E c \in Idx(cls), d \in Idx(cls) :
        c # d /\ cls[c].base # None /\ cls[d].base = cls[c]._name

\* C22 as stated: one optimize() over classes none of which has a base
\* leaves no class with a base that is itself the base of another class
C22_AsStated ==
    [][(last'.op = "Optimize" /\ BaseLess(classes)) => ~Tiered(classes')]_vars

\* three classes registered as X = [a, b, c], X1 = [a, b, c] and X2 = [a, b]:
\* after optimize X1 derives from X and X from X2
C22_Tiers ==
    /\ last.op = "Optimize"
    /\ Len(classes) = 3
    /\ classes[2].base = classes[1]._name
    /\ classes[1].base = classes[3]._name
    /\ classes[3].base = None


RECURSIVE ResolvedClass(_, _, _, _)
\* the class a reference to class c stands for: c itself, or, while the
\* class has a base and no attributes of its own, the class of its base
ResolvedClass(cls, reg, c, fuel) ==
    IF fuel = 0 \/ c = 0 THEN c
    ELSE IF cls[c].base = None \/ cls[c].attributes # <<>> THEN c
    ELSE ResolvedClass(cls, reg, RegGet(reg, cls[c].base), fuel - 1)

\* attribute k of class c references a class that has a base and no
\* attributes of its own
IsAlias(cls, c, k) ==
    LET d == cls[c].attributes[k].param_class IN
    d # 0 /\ cls[d].base # None /\ cls[d].attributes = <<>>

\* the field emitted for attribute k of definition i is typed with the
\* name of the class the alias stands for
AliasTyped(i, k) ==
    LET c == out[i].cls
        a == classes[c].attributes[k]
        e == ResolvedClass(classes, registry, a.param_class, Len(classes))
    IN  /\ e # 0
        /\ out[i].fields[k].type =
              (IF a.arr THEN "list[" \o classes[e]._name \o "]" ELSE classes[e]._name)

\* the class the alias stands for is defined before definition i
AliasDefinedBefore(i, k) ==
    LET c == out[i].cls
        a == classes[c].attributes[k]
        e == ResolvedClass(classes, registry, a.param_class, Len(classes))
    IN  EmittedBefore(out, i - 1, e) \/ EmittedBefore(done, Len(done), e)

\* C24 as stated: when an attribute of an emitted class C references a
\* class D that has a base and no own attributes, the field is typed with
\* the name of the class E that D stands for (list[...] of it for an array),
\* and the definition of E comes before that of C
C24_AsStated ==
    last.op = "AllSources" =>
        \A i \in Idx(out) : \A k \in Idx(classes[out[i].cls].attributes) :
            IsAlias(classes, out[i].cls, k) => (AliasTyped(i, k) /\ AliasDefinedBefore(i, k))

\* the part of C24 that holds: the field is typed with the name of the
\* class the alias stands for
C24_Typed ==
    last.op = "AllSources" =>
        \A i \in Idx(out) : \A k \in Idx(classes[out[i].cls].attributes) :
            IsAlias(classes, out[i].cls, k) => AliasTyped(i, k)

\* a class emitted with a field typed by a class that is defined after it,
\* because that class derives from it
C24_DefinedAfter ==
    /\ last.op = "AllSources" /\ err = "none"
    /\ \E i \in Idx(out) : \E k \in Idx(classes[out[i].cls].attributes) :
        /\ IsAlias(classes, out[i].cls, k)
        /\ AliasTyped(i, k)
        /\ ~AliasDefinedBefore(i, k)
        /\ \E j \in (i + 1)..Len(out) :
              /\ out[j].cls = ResolvedClass(classes, registry,
                                  classes[out[i].cls].attributes[k].param_class, Len(classes))
              /\ out[j].bases = out[i].name


\* every key maps to an instance of that name, and every instance is the
\* value of exactly one key, its name
Consistent(cls, reg) ==
    /\ \A i \in Idx(reg) : reg[i].id \in Idx(cls) /\ cls[reg[i].id]._name = reg[i].key
    /\ \A i \in Idx(reg), j \in Idx(reg) : i # j => reg[i].key # reg[j].key
    /\ \A c \in Idx(cls) :
        /\ Cardinality({i \in Idx(reg) : reg[i].id = c}) = 1
        /\ RegGet(reg, cls[c]._name) = c

\* C26: after every construction and rename that does not exhaust the
\* suffixes, every key of the registry maps to an instance of that name,
\* every instance is registered under exactly one key, its name, and the
\* name an instance had before a rename that changed it is no key any more
C26_Consistent ==
    [][err' = "none" =>
         /\ Consistent(classes', registry')
         /\ last'.op = "Rename" =>
              LET old == classes[last'.c]._name IN
              classes'[last'.c]._name # old => old \notin RegKeys(registry')]_vars

\* two instances that have taken each other's first name by renames
C26_Witness ==
    /\ Len(classes) = 2
    /\ last.op = "Rename"
    /\ classes[1]._name = "X1"
    /\ classes[2]._name = "X"
    /\ RegGet(registry, "X1") = 1
    /\ RegGet(registry, "X") = 2
    /\ Len(registry) = 2


(***************************************************************************)
(* Renames after the hierarchy is inferred                                 *)
(***************************************************************************)
\* the names a class is renamed to
RenameNames == {"A", "C"}

\* two classes of plain attributes, registered as A and B in this order
InitRebase ==
    \E n1 \in 1..MaxAttrs, n2 \in 1..MaxAttrs :
        LET r1 == SetName(<<NewClass(PlainAttrs(n1))>>, <<>>, 1, "A")
            r2 == SetName(Append(r1.classes, NewClass(PlainAttrs(n2))), r1.registry, 2, "B")
        IN  /\ classes = r2.classes
            /\ registry = r2.registry
            /\ out = <<>>
            /\ done = <<>>
            /\ err = "none"
            /\ last = [op |-> "Init", c |-> 0, name |-> None]
            /\ IdleParser
            /\ IdleYml
            /\ IdleRest

\* optimize, renames and emission in any order
NextRebase ==
    \/ Optimize
    \/ \E c \in 1..2, n \in RenameNames : Rename(c, n)
    \/ AllSources

SpecRebase == InitRebase /\ [][NextRebase]_vars

\* C27 as stated: every class that has a base names a key of the registry
\* with it, and emitting the classes never fails to look up a base
C27_AsStated ==
    /\ \A c \in Idx(classes) :
          classes[c].base # None => classes[c].base \in RegKeys(registry)
    /\ last.op = "AllSources" => err # "KeyError"

\* B derives from the class first registered as A, that class was renamed,
\* and emitting B has raised KeyError
C27_KeyError ==
    /\ last.op = "AllSources"
    /\ err = "KeyError"
    /\ classes[2].base = "A"
    /\ classes[1]._name = "C"
    /\ "A" \notin RegKeys(registry)


RECURSIVE Ancestors(_, _, _, _)
\* the classes along the base chain of c, as far as the registry resolves
\* it and for at most fuel links
Ancestors(cls, reg, c, fuel) ==
    IF fuel = 0 \/ cls[c].base = None \/ RegGet(reg, cls[c].base) = 0 THEN {}
    ELSE LET b == RegGet(reg, cls[c].base) IN {b} \cup Ancestors(cls, reg, b, fuel - 1)

\* the (name, type) pairs of the attributes of c and of its ancestors
Inherited(cls, reg, c) ==
    NameTypes(cls[c]) \cup UNION {NameTypes(cls[b]) : b \in Ancestors(cls, reg, c, Len(cls))}

\* no class is its own ancestor
Acyclic(cls, reg) == \A c \in Idx(cls) : c \notin Ancestors(cls, reg, c, Len(cls))

\* the part of C28 that holds, for classes that list every attribute name
\* once: optimize() leaves to every class the (name, type) pairs it had, own
\* or inherited, and no class is its own ancestor
C28_AttributesKept ==
    [][last'.op = "Optimize" =>
         /\ \A c \in Idx(classes) :
               Inherited(classes', registry', c) = Inherited(classes, registry, c)
         /\ \A c \in Idx(classes) :
               classes[c].base = None =>
                   Inherited(classes', registry', c) = NameTypes(classes[c])
         /\ Acyclic(classes', registry')]_vars

\* after an optimize, a class inherits from a base that kept an attribute
\* of its own and inherits from a further base
C28_Chain ==
    /\ last.op = "Optimize"
    /\ \E c \in Idx(classes) :
        /\ Cardinality(Ancestors(classes, registry, c, Len(classes))) = 2
        /\ \E b \in Ancestors(classes, registry, c, Len(classes)) :
              /\ classes[b].base # None
              /\ classes[b].attributes # <<>>
        /\ Cardinality(Inherited(classes, registry, c)) = 3


(***************************************************************************)
(* Subclass inference over attribute lists that may repeat a name          *)
(***************************************************************************)
\* longest attribute list of a class that may repeat a name
MaxRepeatAttrs == 3

\* attribute lists over two names and two types, in any order and with
\* repetitions
RepeatLists ==
    LET attrs == {Attr(n, FALSE, t, 0) : n \in {"a", "b"}, t \in {"string", "number"}}
    IN  UNION {[1..n -> attrs] : n \in 1..MaxRepeatAttrs}

\* two classes, registered as A and B in this order, before optimize runs
InitRepeats ==
    \E a1 \in RepeatLists, a2 \in RepeatLists :
        LET r1 == SetName(<<NewClass(a1)>>, <<>>, 1, "A")
            r2 == SetName(Append(r1.classes, NewClass(a2)), r1.registry, 2, "B")
        IN  /\ classes = r2.classes
            /\ registry = r2.registry
            /\ out = <<>>
            /\ done = <<>>
            /\ err = "none"
            /\ last = [op |-> "Init", c |-> 0, name |-> None]
            /\ IdleParser
            /\ IdleYml
            /\ IdleRest

SpecRepeats == InitRepeats /\ [][Optimize]_vars

\* C28 as stated: for every class, the (name, type) pairs of its own
\* attributes and of those inherited along its base chain after optimize()
\* are the pairs of its own attributes before, and no class is its own
\* ancestor
C28_AsStated ==
    [][last'.op = "Optimize" =>
         /\ \A c \in Idx(classes) :
               classes[c].base = None =>
                   Inherited(classes', registry', c) = NameTypes(classes[c])
         /\ Acyclic(classes', registry')]_vars

\* B listed a as a number and as a string, A lists a as a string: B derives
\* from A and has lost a as a number
C28_Lost ==
    /\ last.op = "Optimize"
    /\ classes[2].base = "A"
    /\ classes[1].attributes = <<Attr("a", FALSE, "string", 0), Attr("b", FALSE, "string", 0)>>
    /\ classes[2].attributes = <<>>
    /\ <<"a", FALSE, "number">> \notin Inherited(classes, registry, 2)


(***************************************************************************)
(* A second pass of optimize                                               *)
(***************************************************************************)
\* C29: right after optimize() has run, a second run changes no base and no
\* attribute list of any class
C29_Idempotent ==
    last.op = "Optimize" =>
        \A c \in Idx(classes) :
            /\ optimize(classes, registry)[c].base = classes[c].base
            /\ optimize(classes, registry)[c].attributes = classes[c].attributes

\* optimize() has run over three classes and has given two of them a base,
\* one of them a class that is itself a base
C29_Witness ==
    /\ last.op = "Optimize"
    /\ Len(classes) = 3
    /\ \E b, c \in Idx(classes) :
          /\ b # c
          /\ classes[b].base # None
          /\ classes[c].base = classes[b]._name


(***************************************************************************)
(* Termination of the emission                                             *)
(***************************************************************************)
\* C30 as stated: list(Class.all_sources()) comes to an end, whatever the
\* references between the classes: the recursion of sources() never runs
\* until the interpreter gives up
C30_AsStated == last.op = "AllSources" => err # "RecursionError"

\* the class of an attribute of a class derives from that class, and the
\* emission has ended in unbounded recursion
C30_Cycle ==
    /\ last.op = "AllSources"
    /\ err = "RecursionError"
    /\ \E a, b \in Idx(classes) :
          /\ a # b
          /\ classes[b].base = classes[a]._name
          /\ \E i \in Idx(classes[a].attributes) : classes[a].attributes[i].param_class = b


(***************************************************************************)
(* The lookahead of param_parser                                           *)
(***************************************************************************)
\* the boundary element k is a row in the standard or the flat form
IsRow(k) ==
    /\ ~Classless(Boundary[k])
    /\ find_all(Boundary[k], "div") # <<>>
    /\ Form(Boundary[k], 0).err = "none"
    /\ Form(Boundary[k], 0).kind \in {"std", "flat"}

\* the loop of param_parser came to the boundary element k as its param_div
CameTo(k) ==
    \/ k = 1
    \/ \E u \in Idx(trace) : trace[u].i = k
    \/ /\ trace # <<>>
       /\ LET t == trace[Len(trace)]
              took == t.kind \in {"std", "flat"} /\ obj_class(Boundary[t.i + 1]) # {}
          IN  \/ t.i = k - 1 /\ ~took
              \/ t.i = k - 2 /\ took

\* the row k is followed by a block with a marker class
RowWithBlock(k) ==
    /\ k + 1 <= Len(Boundary)
    /\ IsRow(k)
    /\ obj_class(Boundary[k + 1]) # {}
    /\ CameTo(k)

\* the block after the row k was consumed as part of the Parameter of the
\* row: blk is what its child divs parse to
Merged(k, blk) ==
    \E t \in Idx(trace) :
        /\ trace[t].i = k
        /\ trace[t].kind \in {"std", "flat"}
        /\ trace[t].n = 1 =>
              IF "params-type-non-object" \in obj_class(Boundary[k + 1])
              THEN params[trace[t].first].param_attrs = blk.out
              ELSE params[trace[t].first].param_object = blk.out
        /\ \A u \in Idx(trace) : trace[u].i # k + 1
        /\ t < Len(trace) => trace[t + 1].i = k + 2

\* C23 as stated: a block with a marker class that follows a row is parsed
\* into the attrs (params-type-non-object) or the object (params-type-object)
\* of the Parameter of the row, is no Parameter of its own, and the parser
\* goes on with the element after the block
C23_AsStated ==
    parsed =>
        \A k \in Idx(Boundary) :
            RowWithBlock(k) =>
                Merged(k, param_parser(find_all(Boundary[k + 1], "div"), 1))

\* the part of C23 that holds: the same, unless the row has attributes below
\* its doc cell and the block is a params-type-non-object block
C23_MergedUnlessAttrs ==
    parsed =>
        \A k \in Idx(Boundary) :
            (/\ RowWithBlock(k)
             /\ ~(/\ "params-type-non-object" \in obj_class(Boundary[k + 1])
                  /\ Form(Boundary[k], 0).param_attrs # <<>>)) =>
                Merged(k, param_parser(find_all(Boundary[k + 1], "div"), 1))

\* a row with two values below its doc cell, followed by a
\* params-type-non-object block: the parser has raised at the block
C23_Asserted ==
    /\ parsed
    /\ perr = "AssertionError"
    /\ params = <<>>
    /\ Len(Boundary) = 2
    /\ IsStdForm(Boundary[1])
    /\ Len(find_all(find_all(Boundary[1], "div")[2], "div")) = 2
    /\ "params-type-non-object" \in obj_class(Boundary[2])


(***************************************************************************)
(* Class instances constructed by threads at the same time.  The lookup    *)
(* and the insert of register() are two steps of a thread; another thread  *)
(* may run between them.                                                   *)
(***************************************************************************)
\* the Class instances the threads construct
MaxRaceClasses == 3

\* the names the threads request
RaceNames == {"A", "B"}

\* a name picked whatever the registry holds
PickName_Requested(reg, name) == name

\* the name register() picks for an instance that requests name: the name
\* when it is no key, else the name with the first suffix that is no key;
\* None when the suffixes are exhausted
PickName(reg, name) ==
    IF RegGet(reg, name) # 0
    THEN LET i == FirstFree(reg, name, 1) IN
         IF i = 0 THEN None ELSE name \o ToString(i)
    ELSE name

\* whether two threads are in the constructor
Overlap(th) == \E t, u \in Threads : t # u /\ th[t].pc # "idle" /\ th[u].pc # "idle"

\* thread t calls Class(name=n): the dataclass sets the fields, the setter
\* of name finds _name None, sets it and calls register()
Begin(t, n) ==
    /\ threads[t].pc = "idle"
    /\ Len(classes) < MaxRaceClasses
    /\ classes' = Append(classes, [NewClass(<<>>) EXCEPT !._name = n])
    /\ threads' = [threads EXCEPT ![t] = [pc |-> "lookup", c |-> Len(classes) + 1]]
    /\ raced' = (raced \/ Overlap(threads'))
    /\ err' = "none"
    /\ last' = [op |-> "Begin", c |-> Len(classes) + 1, name |-> n]
    /\ UNCHANGED <<registry, out, done, parserVars, ymlVars, menuVars, detailVars,
                   updateVars, listVars>>

\* thread t looks its name up in the registry and picks the name it will
\* register
Lookup(t) ==
    /\ threads[t].pc = "lookup"
    /\ LET c == threads[t].c
           new_name == PickName(registry, classes[c]._name)
       IN  IF new_name = None
           THEN /\ err' = "StopIteration"
                /\ threads' = [threads EXCEPT ![t].pc = "idle"]
                /\ UNCHANGED classes
           ELSE /\ err' = "none"
                /\ threads' = [threads EXCEPT ![t].pc = "insert"]
                /\ classes' = [classes EXCEPT ![c]._name = new_name]
    /\ last' = [op |-> "Lookup", c |-> threads[t].c, name |-> classes'[threads[t].c]._name]
    /\ UNCHANGED <<registry, out, done, raced, parserVars, ymlVars, menuVars,
                   detailVars, updateVars, listVars>>

\* thread t inserts its instance under the name it picked
Insert(t) ==
    /\ threads[t].pc = "insert"
    /\ registry' = RegSet(registry, classes[threads[t].c]._name, threads[t].c)
    /\ threads' = [threads EXCEPT ![t].pc = "idle"]
    /\ err' = "none"
    /\ last' = [op |-> "Insert", c |-> threads[t].c, name |-> classes[threads[t].c]._name]
    /\ UNCHANGED <<classes, out, done, raced, parserVars, ymlVars, menuVars,
                   detailVars, updateVars, listVars>>

InitRace ==
    /\ EmptyRegistry
    /\ IdleParser
    /\ IdleYml
    /\ IdleMenu
    /\ IdleDetails
    /\ IdleUpdate
    /\ IdleList
    /\ IdleRace

NextRace ==
    \/ \E t \in Threads, n \in RaceNames : Begin(t, n)
    \/ \E t \in Threads : Lookup(t)
    \/ \E t \in Threads : Insert(t)

SpecRace == InitRace /\ [][NextRace]_vars

\* the instances whose constructor has returned
Constructed ==
    {c \in Idx(classes) : \A t \in Threads : threads[t].pc # "idle" => threads[t].c # c}

\* C25: as long as no two threads have been in the constructor at once, the
\* instances constructed have names of their own and the registry holds
\* each of them under its name
C25_SequentialUnique ==
    ~raced =>
        /\ \A c, d \in Constructed : c # d => classes[c]._name # classes[d]._name
        /\ \A c \in Constructed : RegGet(registry, classes[c]._name) = c

\* two threads have looked the same name up before either inserted it: two
\* instances carry that name and the registry holds one of them
C25_Race ==
    /\ raced
    /\ \E c, d \in Constructed :
          /\ c # d
          /\ classes[c]._name = classes[d]._name
          /\ RegGet(registry, classes[c]._name) = d
          /\ \A k \in Idx(registry) : registry[k].id # c


(***************************************************************************)
(* Listing a collection page by page.  RoomsApi.list and MessagesApi.list  *)
(* build the parameters of the request and hand them to                    *)
(* session.follow_pagination.  The parameters are a record: container is   *)
(* the filter by the team or the room (teamId, roomId), mentioned the      *)
(* mentionedPeople list, max the page size asked for (0: not given).       *)
(***************************************************************************)
\* the items of the collection
MaxItems == 3

\* the list() calls made
MaxListings == 2

\* the page size of the service when the request has no max
DefaultMax == 2

\* the teams or rooms the items are in
Containers == {"t1", "t2"}

\* the collections the service may hold: the items 1..n, the odd ones in the
\* first container and the even ones in the second
Collections ==
    {[i \in 1..n |-> [id |-> i, container |-> IF i % 2 = 1 THEN "t1" ELSE "t2"]] :
        n \in 0..MaxItems}

\* the parameters RoomsApi.list and MessagesApi.list hand over: the keyword
\* parameters, and the named parameters that are not None.  mentioned_people
\* of MessagesApi.list defaults to the empty list, which is not None.
ListParams(api, container, max) ==
    [container |-> container,
     mentioned |-> IF api = "messages" THEN <<>> ELSE <<None>>,
     max |-> max]

\* no further page
NoLink == [container |-> None, max |-> 0, offset |-> 0, more |-> FALSE]

\* the request for the first page
FirstLink(query) ==
    [container |-> query.container, max |-> query.max, offset |-> 0, more |-> TRUE]

\* the items of the collection the filter lets through
Matching(coll, container) ==
    SelectSeq(coll, LAMBDA item : container = None \/ item.container = container)

\* a response that never links to a further page
Page_NoNext(coll, link) ==
    LET found == Matching(coll, link.container)
        size == IF link.max = 0 THEN DefaultMax ELSE link.max
        upto == IF link.offset + size < Len(found) THEN link.offset + size ELSE Len(found)
    IN  [items |-> SubSeq(found, link.offset + 1, upto), next |-> NoLink]

\* the response of the service to a request: the next items, at most max of
\* them, and the link to the page after them when there are more
Page(coll, link) ==
    LET found == Matching(coll, link.container)
        size == IF link.max = 0 THEN DefaultMax ELSE link.max
        upto == IF link.offset + size < Len(found) THEN link.offset + size ELSE Len(found)
    IN  [items |-> SubSeq(found, link.offset + 1, upto),
         next  |-> IF upto < Len(found) THEN [link EXCEPT !.offset = upto] ELSE NoLink]

\* api.list(container, max=max): the generator follow_pagination returns
List(api, container, max) ==
    /\ Len(listings) < MaxListings
    /\ listings' = Append(listings,
                          [api |-> api,
                           params |-> ListParams(api, container, max),
                           next |-> FirstLink(ListParams(api, container, max)),
                           items |-> <<>>])
    /\ UNCHANGED <<collection, regVars, parserVars, ymlVars, menuVars, detailVars,
                   updateVars, raceVars>>

\* one round of follow_pagination for the listing k: it requests the page,
\* yields its items and goes on with the link to the next page
NextPage(k) ==
    /\ listings[k].next.more
    /\ LET page == Page(collection, listings[k].next) IN
       listings' = [listings EXCEPT ![k].items = @ \o page.items,
                                    ![k].next = page.next]
    /\ UNCHANGED <<collection, regVars, parserVars, ymlVars, menuVars, detailVars,
                   updateVars, raceVars>>

InitList ==
    /\ EmptyRegistry
    /\ IdleParser
    /\ IdleYml
    /\ IdleMenu
    /\ IdleDetails
    /\ IdleUpdate
    /\ IdleRace
    /\ collection \in Collections
    /\ listings = <<>>

NextList ==
    \/ \E api \in Apis, container \in Containers \cup {None},
          max \in 0..MaxItems : List(api, container, max)
    \/ \E k \in Idx(listings) : NextPage(k)

SpecList == InitList /\ [][NextList]_vars

\* the listing k has come to its end
Listed(k) == ~listings[k].next.more

====
